---- MODULE Spec2Model ----
(***************************************************************************)
(* A model of the Simple-LAS-viewer: the slicer hook (useSlicer), the      *)
(* parts of the LASViewer component that drive it, and the LAS header and  *)
(* point decoder (LASParser).                                              *)
(*                                                                         *)
(* React is modelled as follows.  A dispatch or a state setter appends an  *)
(* update to `updates`; a render applies the queued updates in dispatch    *)
(* order and then runs the effects whose dependencies changed (cleanups    *)
(* first).  An update made inside a DOM event handler is rendered, and its *)
(* effects are run, before the handler's task ends; an update made inside  *)
(* an effect or after an await is rendered by a later task (Render).  A    *)
(* setTimeout callback is a task of its own, so it can run between any two *)
(* of these steps once it is pending; the model does not measure time.     *)
(*                                                                         *)
(* Coordinates are integers and the data rotation is a quarter turn, where *)
(* cos and sin are integers, so every comparison of applySlice is exact.   *)
(***************************************************************************)
EXTENDS Integers, Sequences, FiniteSets, TLC

VARIABLES
  state,            \* useSlicer: the useReducer state
  pointColor,       \* LASViewer: useState('original')
  rotationZ,        \* LASViewer: useState(0), degrees
  fileInfo,         \* LASViewer: useState(null); 0 is null, else the file shown
  updates,          \* updates dispatched and not yet rendered
  threeRef,         \* threeRef.current: points geometry and original buffers
  debounceTimerRef, \* useSlicer: id of the last timer set, 0 is null
  lastAppliedRef,   \* useSlicer: << >> is null, else <<key>>
  timers,           \* the host's pending setTimeout callbacks
  fired,            \* history: the closure whose recompute has just run
  lastRequest,      \* history: the key of the latest applySliceDebounced call
  stored,           \* history: the file whose buffers the last load stored, 0 if none
  before,           \* history: << >>, or what was shown when the slicer was turned off
  userDone,         \* environment: the user has made the last change
  events,           \* environment: the number of user events so far
  loads,            \* LASViewer.loadFile: the calls waiting at their await, oldest first
  lastStarted,      \* history: the file of the latest loadFile call, 0 if none
  loading,          \* LASViewer: useState(false), as last set
  error,            \* LASViewer: useState(null), as last set; "" is null
  buffer,           \* the ArrayBuffer of the file: what LASParser is constructed on
  maxPoints,        \* LASParser: this.maxPoints
  validated,        \* << >>, or <<what validate() returned>>
  header,           \* LASParser: this.header; << >> is {}
  parsed,           \* << >>, or <<what parse() returned or threw>>
  lazHeader,        \* << >>, or <<what readLazHeader returned or threw>>
  laz,              \* LAZDecompressor: the module's state and one decompressLaz call
  controls,         \* OrbitControls: the fields of one instance
  fileLoader        \* useFileLoader: one loadFile call

viewerVars == <<state, pointColor, rotationZ, fileInfo, updates, threeRef,
                debounceTimerRef, lastAppliedRef, timers, fired, lastRequest,
                stored, before, userDone, events, loads, lastStarted,
                loading, error>>

parserVars == <<buffer, maxPoints, validated, header, parsed, lazHeader>>

lazVars == <<laz>>

controlVars == <<controls>>

loaderVars == <<fileLoader>>

vars == <<viewerVars, parserVars, lazVars, loaderVars, controlVars>>

----------------------------------------------------------------------------
(* Bounds and inputs of the model.                                         *)

MaxTimers == 2

MaxEvents == 5

TimerIds == 1 .. (MaxTimers + 1)

SliderValues == {0, 50, 100}

RotationValues == {0, 90, 360}

PointColors == {"original", "#ffffff"}

Axes == {"x", "y", "z"}

\* What a successful parse hands to loadFile: positions centred on the
\* midpoint of their extremes, one colour per point.
Files == <<
  [positions |-> << <<-2, -1, -1>>, <<2, 1, 1>>, <<0, 1, -1>> >>,
   colors    |-> << <<0, 0, 1>>, <<1, 0, 0>>, <<0, 1, 0>> >>],
  [positions |-> << <<-1, -3, 0>>, <<1, 3, 0>> >>,
   colors    |-> << <<0, 1, 1>>, <<1, 1, 0>> >>] >>

FileIds == DOMAIN Files

----------------------------------------------------------------------------
(* Arithmetic helpers.                                                     *)

\* The sequence s without its element i.
RemoveAt(s, i) == SubSeq(s, 1, i - 1) \o SubSeq(s, i + 1, Len(s))

Min2(a, b) == IF a < b THEN a ELSE b

Max2(a, b) == IF a > b THEN a ELSE b

SetMin(S) == CHOOSE m \in S : \A n \in S : m <= n

SetMax(S) == CHOOSE m \in S : \A n \in S : m >= n

\* Math.cos and Math.sin of rotDegrees * PI / 180 at the quarter turns.
Cos(deg) == CASE deg % 360 = 0 -> 1
              [] deg % 360 = 90 -> 0
              [] deg % 360 = 180 -> -1
              [] deg % 360 = 270 -> 0

Sin(deg) == CASE deg % 360 = 0 -> 0
              [] deg % 360 = 90 -> 1
              [] deg % 360 = 180 -> 0
              [] deg % 360 = 270 -> -1

worldX(p, deg) == p[1] * Cos(deg) - p[2] * Sin(deg)

worldY(p, deg) == p[1] * Sin(deg) + p[2] * Cos(deg)

worldZ(p) == p[3]

\* new THREE.Color(pointColor) for the presets of the colour picker.
ThreeColor(c) == CASE c = "#ffffff" -> <<1, 1, 1>>
                   [] c = "#000000" -> <<0, 0, 0>>

\* Math.PI, in microradians.
PI == 3141593

\* OrbitControls: radians turned per pixel dragged, in microradians.
rotateSensitivity == 3000

\* OrbitControls: the limits of the elevation.
minElevation == -(PI \div 3)

maxElevation == PI \div 2 - 50000

----------------------------------------------------------------------------
(* useSlicer: reducer.                                                     *)

initialState ==
  [enabled |-> FALSE,
   x |-> [min |-> 0, max |-> 100],
   y |-> [min |-> 0, max |-> 100],
   z |-> [min |-> 0, max |-> 100],
   boundsX |-> [min |-> 0, max |-> 100],
   boundsY |-> [min |-> 0, max |-> 100],
   boundsZ |-> [min |-> 0, max |-> 100]]

ReducerTypes == {"SET_ENABLED", "SET_X", "SET_Y", "SET_Z", "SET_BOUNDS",
                 "RESET_RANGES", "RESET_ALL", "INITIALIZE"}

slicerReducer(s, action) ==
  CASE action.type = "SET_ENABLED" -> [s EXCEPT !.enabled = action.payload]
    [] action.type = "SET_X" -> [s EXCEPT !.x = action.payload]
    [] action.type = "SET_Y" -> [s EXCEPT !.y = action.payload]
    [] action.type = "SET_Z" -> [s EXCEPT !.z = action.payload]
    [] action.type = "SET_BOUNDS" ->
         [s EXCEPT !.boundsX = action.payload.x,
                   !.boundsY = action.payload.y,
                   !.boundsZ = action.payload.z]
    [] action.type = "RESET_RANGES" ->
         [s EXCEPT !.x = [min |-> 0, max |-> 100],
                   !.y = [min |-> 0, max |-> 100],
                   !.z = [min |-> 0, max |-> 100]]
    [] action.type = "RESET_ALL" ->
         [initialState EXCEPT !.boundsX = s.boundsX,
                              !.boundsY = s.boundsY,
                              !.boundsZ = s.boundsZ]
    [] action.type = "INITIALIZE" ->
         [initialState EXCEPT !.boundsX = action.payload.x,
                              !.boundsY = action.payload.y,
                              !.boundsZ = action.payload.z]
    [] OTHER -> s

----------------------------------------------------------------------------
(* useSlicer: bounds, filter and debounce.                                 *)

\* The SET_BOUNDS actions updateBoundsForRotation dispatches: none for an
\* empty buffer, else one carrying the extremes of the rotated points.
updateBoundsForRotation(positions, rotDegrees) ==
  IF Len(positions) = 0 THEN << >>
  ELSE LET I == DOMAIN positions
           wx == {worldX(positions[i], rotDegrees) : i \in I}
           wy == {worldY(positions[i], rotDegrees) : i \in I}
           wz == {worldZ(positions[i]) : i \in I}
       IN << [type |-> "SET_BOUNDS",
              payload |-> [x |-> [min |-> SetMin(wx), max |-> SetMax(wx)],
                           y |-> [min |-> SetMin(wy), max |-> SetMax(wy)],
                           z |-> [min |-> SetMin(wz), max |-> SetMax(wz)]]] >>

\* 100 * (bound.min + (pct / 100) * (bound.max - bound.min))
Actual100(bound, pct) == 100 * bound.min + pct * (bound.max - bound.min)

\* InSlice testing the local X and Y instead of the rotated ones.
InSliceLocal(p, s, rot) ==
  /\ 100 * p[1] >= Actual100(s.boundsX, s.x.min)
  /\ 100 * p[1] <= Actual100(s.boundsX, s.x.max)
  /\ 100 * p[2] >= Actual100(s.boundsY, s.y.min)
  /\ 100 * p[2] <= Actual100(s.boundsY, s.y.max)
  /\ 100 * worldZ(p) >= Actual100(s.boundsZ, s.z.min)
  /\ 100 * worldZ(p) <= Actual100(s.boundsZ, s.z.max)

\* The bounds check of applySlice for one point.
InSlice(p, s, rot) ==
  /\ 100 * worldX(p, rot) >= Actual100(s.boundsX, s.x.min)
  /\ 100 * worldX(p, rot) <= Actual100(s.boundsX, s.x.max)
  /\ 100 * worldY(p, rot) >= Actual100(s.boundsY, s.y.min)
  /\ 100 * worldY(p, rot) <= Actual100(s.boundsY, s.y.max)
  /\ 100 * worldZ(p) >= Actual100(s.boundsZ, s.z.min)
  /\ 100 * worldZ(p) <= Actual100(s.boundsZ, s.z.max)

\* The colour applySlice pushes for original point i.
SliceColor(i, origColors, pc) ==
  IF pc # "original" THEN ThreeColor(pc) ELSE origColors[i]

\* The loop of applySlice from index i on, pushing onto acc.
RECURSIVE filterLoop(_, _, _, _, _, _)
filterLoop(i, acc, origPos, origColors, s, cl) ==
  IF i > Len(origPos) THEN acc
  ELSE filterLoop(
         i + 1,
         IF InSlice(origPos[i], s, cl.rotationZ)
           THEN [position |-> Append(acc.position, origPos[i]),
                 color |-> Append(acc.color,
                                  SliceColor(i, origColors, cl.pointColor))]
           ELSE acc,
         origPos, origColors, s, cl)

\* A buffer of n copies of the solid colour.
SolidColors(n, pc) == [i \in 1 .. n |-> ThreeColor(pc)]

\* applySlice keeping its filtered arrays as the original buffers too.
applySliceInPlace(ref, cl) ==
  IF ~ref.points \/ ~ref.hasOriginal THEN ref
  ELSE IF ~cl.state.enabled THEN ref
  ELSE LET out == filterLoop(1, [position |-> << >>, color |-> << >>],
                             ref.originalPositions, ref.originalColors,
                             cl.state, cl)
       IN [ref EXCEPT !.position = out.position, !.color = out.color,
                      !.originalPositions = out.position,
                      !.originalColors = out.color]

\* applySlice as closed over the render `cl`, run on the ref `ref`: the ref
\* it leaves behind.
applySlice(ref, cl) ==
  IF ~ref.points \/ ~ref.hasOriginal THEN ref
  ELSE IF ~cl.state.enabled
    THEN IF Len(ref.position) # Len(ref.originalPositions)
           THEN [ref EXCEPT
                   !.position = ref.originalPositions,
                   !.color = IF cl.pointColor = "original"
                               THEN ref.originalColors
                               ELSE SolidColors(Len(ref.originalPositions),
                                                cl.pointColor)]
           ELSE ref
    ELSE LET out == filterLoop(1, [position |-> << >>, color |-> << >>],
                               ref.originalPositions, ref.originalColors,
                               cl.state, cl)
         IN [ref EXCEPT !.position = out.position, !.color = out.color]

\* The structural key of applySliceDebounced (JSON.stringify of these fields).
currentKey(cl) ==
  [enabled |-> cl.state.enabled, x |-> cl.state.x, y |-> cl.state.y,
   z |-> cl.state.z, pointColor |-> cl.pointColor, rotationZ |-> cl.rotationZ]

\* clearTimeout that leaves the timer pending.
clearTimeoutNoop(ts, id) == ts

\* clearTimeout(id): a pending timer with that id is dropped.
clearTimeout(ts, id) == {t \in ts : t.id # id}

\* The id setTimeout returns: one that names no pending timer and is not the
\* id the hook still holds.
NewTimerId(ts, ref) ==
  SetMin({i \in TimerIds : i # ref /\ \A t \in ts : t.id # i})

\* applySliceDebounced of the render `cl`, after the effect's cleanup: the
\* timer table and the ref it leaves.
applySliceDebounced(ts, ref, lastApplied, cl) ==
  LET cleared == clearTimeout(clearTimeout(ts, ref), ref)
  IN IF lastApplied = <<currentKey(cl)>>
       THEN [timers |-> cleared, ref |-> ref]
       ELSE LET id == NewTimerId(cleared, ref)
            IN [timers |-> cleared \cup {[id |-> id, closure |-> cl]},
                ref |-> id]

----------------------------------------------------------------------------
(* Rendering: the queued updates, then the effects.                        *)

\* One queued update applied to the component's state.
applyUpdate(c, u) ==
  CASE u.type = "setPointColor" -> [c EXCEPT !.pointColor = u.payload]
    [] u.type = "setRotationZ" -> [c EXCEPT !.rotationZ = u.payload]
    [] u.type = "setFileInfo" -> [c EXCEPT !.fileInfo = u.payload]
    [] OTHER -> [c EXCEPT !.state = slicerReducer(c.state, u)]

RECURSIVE applyUpdates(_, _)
applyUpdates(c, q) ==
  IF Len(q) = 0 THEN c ELSE applyUpdates(applyUpdate(c, Head(q)), Tail(q))

\* The state the component has rendered last.
rendered ==
  [state |-> state, pointColor |-> pointColor, rotationZ |-> rotationZ,
   fileInfo |-> fileInfo]

\* What the render closes over for the slicer callbacks.
closureOf(c) ==
  [state |-> c.state, pointColor |-> c.pointColor, rotationZ |-> c.rotationZ]

\* LASViewer's "Update point colors" effect on the ref, for the render c.
pointColorEffect(ref, c) ==
  IF ~ref.points \/ ~ref.hasOriginal THEN ref
  ELSE IF c.state.enabled THEN ref
  ELSE [ref EXCEPT !.color = IF c.pointColor = "original"
                               THEN ref.originalColors
                               ELSE SolidColors(Len(ref.originalColors),
                                                c.pointColor)]

\* useSlicer's "Update bounds when rotation changes" effect: what it
\* dispatches.
boundsEffect(ref, c) ==
  IF ref.hasOriginal
    THEN updateBoundsForRotation(ref.originalPositions, c.rotationZ)
    ELSE << >>

\* LASViewer's "Apply rotation to points" effect: what it dispatches.
rotationEffect(ref, c) ==
  IF ref.hasOriginal
    THEN updateBoundsForRotation(ref.originalPositions, c.rotationZ)
    ELSE << >>

\* A render of the updates q and the effects it triggers.  The reducer
\* returns a new state object for every action, so `state` is a changed
\* dependency whenever a reducer action was queued; the object useSlicer
\* returns is new on every render, so rotationEffect runs on every render.
Commit(q) ==
  LET c == applyUpdates(rendered, q)
      stateChanged == \E i \in DOMAIN q : q[i].type \in ReducerTypes
      colorChanged == c.pointColor # pointColor
      rotChanged == c.rotationZ # rotationZ
      enabledChanged == c.state.enabled # state.enabled
      deb == applySliceDebounced(timers, debounceTimerRef, lastAppliedRef,
                                 closureOf(c))
  IN /\ state' = c.state
     /\ pointColor' = c.pointColor
     /\ rotationZ' = c.rotationZ
     /\ fileInfo' = c.fileInfo
     /\ IF stateChanged \/ colorChanged \/ rotChanged
          THEN /\ Cardinality(deb.timers) <= MaxTimers
               /\ timers' = deb.timers
               /\ debounceTimerRef' = deb.ref
               /\ lastRequest' = <<currentKey(closureOf(c))>>
          ELSE UNCHANGED <<timers, debounceTimerRef, lastRequest>>
     /\ threeRef' = IF colorChanged \/ enabledChanged
                      THEN pointColorEffect(threeRef, c)
                      ELSE threeRef
     /\ updates' = (IF rotChanged THEN boundsEffect(threeRef, c) ELSE << >>)
                     \o rotationEffect(threeRef, c)
     /\ fired' = << >>
     /\ UNCHANGED lastAppliedRef

----------------------------------------------------------------------------
(* The steps of the viewer.                                                *)

\* The state after the component has mounted: the first render's effects
\* have run, so the first debounce timer is pending.
ViewerStart ==
  /\ state = initialState
  /\ pointColor = "original"
  /\ rotationZ = 0
  /\ fileInfo = 0
  /\ updates = << >>
  /\ threeRef = [points |-> FALSE, hasOriginal |-> FALSE,
                 position |-> << >>, color |-> << >>,
                 originalPositions |-> << >>, originalColors |-> << >>]
  /\ debounceTimerRef = 1
  /\ lastAppliedRef = << >>
  /\ timers = {[id |-> 1,
                closure |-> [state |-> initialState,
                             pointColor |-> "original", rotationZ |-> 0]]}
  /\ fired = << >>
  /\ lastRequest = <<currentKey([state |-> initialState,
                                 pointColor |-> "original", rotationZ |-> 0])>>
  /\ stored = 0
  /\ before = << >>
  /\ userDone = FALSE
  /\ events = 0
  /\ loads = << >>
  /\ lastStarted = 0
  /\ loading = FALSE
  /\ error = ""

\* The decompressor module has just been imported and nothing has called
\* it: LazPerf and lazPerfInitializing are null (0), createLazPerf() has not
\* been called, and no call waits.
LazIdle ==
  laz = [LazPerf |-> 0, lazPerfInitializing |-> 0, created |-> 0,
         resolved |-> {}, started |-> 0, waiting |-> << >>, modules |-> {},
         engine |-> << >>, last |-> << >>]

\* OrbitControls after its constructor.  Angles are in microradians.  The
\* target and the distance are left out: no statement that writes azimuth
\* or elevation reads them.
ControlsIdle ==
  controls = [azimuth |-> PI \div 4, elevation |-> PI \div 4,
              dragging |-> FALSE, panning |-> FALSE, lastX |-> 0, lastY |-> 0,
              touches |-> 0, ops |-> 0]

\* useFileLoader's loadFile has not been called.
LoaderIdle ==
  fileLoader = [pc |-> "idle", supportsWorkers |-> TRUE, useWorker |-> TRUE,
                detached |-> FALSE, message |-> << >>, workerFailed |-> "",
                workerRef |-> FALSE, terminated |-> FALSE,
                cancelled |-> FALSE,
                loading |-> FALSE, error |-> "", result |-> << >>]

\* No parser has been constructed.
ParserIdle ==
  /\ buffer = [byteLength |-> 0, bytes |-> << >>, floats |-> << >>]
  /\ maxPoints = 2000000
  /\ validated = << >>
  /\ header = << >>
  /\ parsed = << >>
  /\ lazHeader = << >>

InitViewer ==
  ViewerStart /\ ParserIdle /\ LazIdle /\ LoaderIdle /\ ControlsIdle

\* A user event: the user is still active, and the model counts the event.
UserEvent ==
  /\ ~userDone
  /\ events < MaxEvents
  /\ events' = events + 1
  /\ UNCHANGED <<loads, lastStarted, loading, error, parserVars, lazVars, loaderVars,
                 controlVars>>

\* React renders the updates queued by effects or by a finished load.
Render ==
  /\ Len(updates) > 0
  /\ Commit(updates)
  /\ UNCHANGED <<stored, before, userDone, events, loads, lastStarted, loading, error,
                 parserVars, lazVars, loaderVars,
                 controlVars>>

\* The debounce timer `id` fires: its closure's applySlice runs and the
\* closure's key becomes the last applied key.
TimerFire(id) ==
  \E t \in timers :
    /\ t.id = id
    /\ threeRef' = applySlice(threeRef, t.closure)
    /\ lastAppliedRef' = <<currentKey(t.closure)>>
    /\ timers' = timers \ {t}
    /\ fired' = <<t.closure>>
    /\ UNCHANGED <<state, pointColor, rotationZ, fileInfo, updates,
                   debounceTimerRef, lastRequest, stored, before, userDone,
                   events, loads, lastStarted, loading, error, parserVars, lazVars,
                   loaderVars,
                 controlVars>>

\* SlicerControls: the ON/OFF button.
Toggle ==
  /\ UserEvent
  /\ fileInfo # 0
  /\ Commit(Append(updates, [type |-> "SET_ENABLED",
                             payload |-> ~state.enabled]))
  /\ before' = IF state.enabled /\ threeRef.points
                   /\ lastAppliedRef = <<currentKey(closureOf(rendered))>>
                 THEN <<[key |-> currentKey(closureOf(rendered)),
                         file |-> stored,
                         count |-> Len(threeRef.position)]>>
                 ELSE before
  /\ UNCHANGED <<stored, userDone>>

\* minWrite without the clamp against the other bound.
minWriteUnclamped(range, v) == [range EXCEPT !.min = v]

\* The range the minimum slider's onChange hands to onSetX/Y/Z.
minWrite(range, v) == [range EXCEPT !.min = Min2(v, range.max - 1)]

\* The range the maximum slider's onChange hands to onSetX/Y/Z.
maxWrite(range, v) == [range EXCEPT !.max = Max2(v, range.min + 1)]

SetAxisType(axis) ==
  CASE axis = "x" -> "SET_X" [] axis = "y" -> "SET_Y" [] axis = "z" -> "SET_Z"

\* SlicerControls: the minimum slider of an axis moves to v.
SetRangeMin(axis, v) ==
  /\ UserEvent
  /\ fileInfo # 0
  /\ state.enabled
  /\ v # state[axis].min
  /\ Commit(Append(updates,
       [type |-> SetAxisType(axis),
        payload |-> minWrite(state[axis], v)]))
  /\ UNCHANGED <<stored, before, userDone>>

\* SlicerControls: the maximum slider of an axis moves to v.
SetRangeMax(axis, v) ==
  /\ UserEvent
  /\ fileInfo # 0
  /\ state.enabled
  /\ v # state[axis].max
  /\ Commit(Append(updates,
       [type |-> SetAxisType(axis),
        payload |-> maxWrite(state[axis], v)]))
  /\ UNCHANGED <<stored, before, userDone>>

\* SlicerControls: the "Reset All" button.
ResetRanges ==
  /\ UserEvent
  /\ fileInfo # 0
  /\ state.enabled
  /\ Commit(Append(updates, [type |-> "RESET_RANGES"]))
  /\ UNCHANGED <<stored, before, userDone>>

\* Header: a button of the colour picker.
SetPointColor(c) ==
  /\ UserEvent
  /\ c # pointColor
  /\ Commit(Append(updates, [type |-> "setPointColor", payload |-> c]))
  /\ UNCHANGED <<stored, before, userDone>>

\* DataRotationControls: onSetRotation(v).
SetRotation(v) ==
  /\ UserEvent
  /\ fileInfo # 0
  /\ v # rotationZ
  /\ Commit(Append(updates, [type |-> "setRotationZ", payload |-> v]))
  /\ UNCHANGED <<stored, before, userDone>>

\* The extremes loadFile computes for the slicer.
dataBounds(positions) ==
  LET I == DOMAIN positions
      xs == {positions[i][1] : i \in I}
      ys == {positions[i][2] : i \in I}
      zs == {positions[i][3] : i \in I}
  IN [x |-> [min |-> SetMin(xs), max |-> SetMax(xs)],
      y |-> [min |-> SetMin(ys), max |-> SetMax(ys)],
      z |-> [min |-> SetMin(zs), max |-> SetMax(zs)]]

\* loadFile, from the return of parser.parse() to its end, for file f: the
\* old points are removed, the new geometry and the original buffers are
\* stored, and the slicer, colour, rotation and file info are set.
showFile(f) ==
  /\ threeRef' = [points |-> TRUE, hasOriginal |-> TRUE,
                  position |-> Files[f].positions,
                  color |-> Files[f].colors,
                  originalPositions |-> Files[f].positions,
                  originalColors |-> Files[f].colors]
  /\ lastAppliedRef' = << >>
  /\ updates' = updates \o
       << [type |-> "INITIALIZE", payload |-> dataBounds(Files[f].positions)],
          [type |-> "setPointColor", payload |-> "original"],
          [type |-> "setRotationZ", payload |-> 0],
          [type |-> "setFileInfo", payload |-> f] >>
  /\ fired' = << >>
  /\ stored' = f
  /\ before' = << >>
  /\ UNCHANGED <<state, pointColor, rotationZ, fileInfo, debounceTimerRef,
                 timers, lastRequest, userDone>>

\* A load whose file is read and parsed before anything else happens.
LoadFile(f) ==
  /\ UserEvent
  /\ showFile(f)

NextViewer ==
  \/ Render
  \/ \E id \in TimerIds : TimerFire(id)
  \/ Toggle
  \/ \E axis \in Axes, v \in SliderValues : SetRangeMin(axis, v)
  \/ \E axis \in Axes, v \in SliderValues : SetRangeMax(axis, v)
  \/ ResetRanges
  \/ \E c \in PointColors : SetPointColor(c)
  \/ \E v \in RotationValues : SetRotation(v)
  \/ \E f \in FileIds : LoadFile(f)

Spec == InitViewer /\ [][NextViewer]_vars

\* The user stops changing parameters: the last change of a burst is made.
EndBurst ==
  /\ ~userDone
  /\ userDone' = TRUE
  /\ UNCHANGED <<state, pointColor, rotationZ, fileInfo, updates, threeRef,
                 debounceTimerRef, lastAppliedRef, timers, fired, lastRequest,
                 stored, before, events, loads, lastStarted, loading, error, parserVars,
                 lazVars, loaderVars,
                 controlVars>>

NextLive == NextViewer \/ EndBurst

\* React's scheduler runs a queued render, and the host runs a timer that
\* stays pending; a timer that is cleared is never owed a run.
LiveSpec ==
  /\ InitViewer
  /\ [][NextLive]_vars
  /\ WF_vars(Render)
  /\ \A id \in TimerIds : WF_vars(TimerFire(id))

----------------------------------------------------------------------------
(* LASParser and readLazHeader: the DataView reads.                        *)
(*                                                                         *)
(* A buffer is [byteLength, bytes, floats]: bytes maps an offset to its    *)
(* byte (0 where it is not listed), floats maps the offset of a float64    *)
(* field to its value.  The scale and offset fields are integers here.     *)
(* A uint32 is the pair of its 16-bit halves, low half first, and a        *)
(* JavaScript number holding a count is the tuple of its five 16-bit       *)
(* limbs, lowest first, so that no value leaves the checker's integers.    *)

\* "LASF".
LASF == <<76, 65, 83, 70>>

\* A DataView read of n bytes at off throws a RangeError unless this holds.
Readable(buf, off, n) == off + n <= buf.byteLength

getUint8(buf, off) == IF off \in DOMAIN buf.bytes THEN buf.bytes[off] ELSE 0

\* getUint16(off, true): little endian.
getUint16(buf, off) == getUint8(buf, off) + 256 * getUint8(buf, off + 1)

\* getUint32(off, true) as <<low half, high half>>.
getUint32(buf, off) == <<getUint16(buf, off), getUint16(buf, off + 2)>>

\* getInt32(off, true): two's complement.
getInt32(buf, off) ==
  LET hi == getUint16(buf, off + 2)
  IN getUint16(buf, off) + 65536 * (IF hi >= 32768 THEN hi - 65536 ELSE hi)

getFloat64(buf, off) == buf.floats[off]

\* String.fromCharCode of the first four bytes.
signatureOf(buf) ==
  <<getUint8(buf, 0), getUint8(buf, 1), getUint8(buf, 2), getUint8(buf, 3)>>

\* A uint32 as a JavaScript number.
FromUint32(u) == <<u[1], u[2], 0, 0, 0>>

\* The number of bits of v, for v below 2^16.
BitLength(v) == CHOOSE b \in 0 .. 16 : v < 2^b /\ (b > 0 => v >= 2^(b - 1))

\* low + high * 0x100000000 in IEEE 754 double arithmetic: the product is
\* exact, and the sum is rounded to 53 significant bits, ties to even.
Count64(low, high) ==
  IF high[2] < 32
    THEN <<low[1], low[2], high[1], high[2], 0>>
    ELSE LET p == 2^(BitLength(high[2]) - 5)
             q == low[1] \div p
             rem == low[1] % p
             up == IF 2 * rem > p \/ (2 * rem = p /\ q % 2 = 1) THEN 1 ELSE 0
             s1 == (q + up) * p
             s2 == low[2] + (s1 \div 65536)
             s3 == high[1] + (s2 \div 65536)
             s4 == high[2] + (s3 \div 65536)
         IN <<s1 % 65536, s2 % 65536, s3 % 65536, s4 % 65536, s4 \div 65536>>

\* count64 > 0.
Positive(n) == n # <<0, 0, 0, 0, 0>>

\* A count as an integer; counts of 2^30 and more are all taken as 2^30,
\* which is beyond the last record of every buffer of the model.
NumToInt(n) ==
  IF n[3] = 0 /\ n[4] = 0 /\ n[5] = 0 /\ n[2] < 16384
    THEN n[1] + 65536 * n[2]
    ELSE 1073741824

\* A uint32 offset as an integer, with the same ceiling.
Uint32ToInt(u) == NumToInt(FromUint32(u))

----------------------------------------------------------------------------
(* LASParser.validate, LASParser.parseHeader, readLazHeader.               *)

\* validate() without the test of the signature.
validateAnySignature(buf) ==
  IF ~(/\ Readable(buf, 0, 1) /\ Readable(buf, 1, 1)
       /\ Readable(buf, 2, 1) /\ Readable(buf, 3, 1)
       /\ Readable(buf, 107, 4) /\ Readable(buf, 24, 1)
       /\ Readable(buf, 25, 1) /\ Readable(buf, 94, 2))
    THEN [valid |-> FALSE, error |-> "Failed to read LAS header"]
  ELSE
    LET extended == /\ getUint8(buf, 24) >= 1 /\ getUint8(buf, 25) >= 4
                    /\ getUint16(buf, 94) >= 375
        count64 == Count64(getUint32(buf, 247), getUint32(buf, 251))
        numberOfPoints == IF extended /\ Positive(count64)
                            THEN count64
                            ELSE FromUint32(getUint32(buf, 107))
    IN IF extended /\ ~(Readable(buf, 247, 4) /\ Readable(buf, 251, 4))
         THEN [valid |-> FALSE, error |-> "Failed to read LAS header"]
         ELSE [valid |-> TRUE,
               pointCount |-> numberOfPoints,
               estimatedMemory |-> Min2(NumToInt(numberOfPoints), maxPoints) * 24]

\* validate(): the try block, and the catch that turns a RangeError into a
\* verdict.
validate(buf) ==
  IF ~(/\ Readable(buf, 0, 1) /\ Readable(buf, 1, 1)
       /\ Readable(buf, 2, 1) /\ Readable(buf, 3, 1))
    THEN [valid |-> FALSE, error |-> "Failed to read LAS header"]
  ELSE IF signatureOf(buf) # LASF
    THEN [valid |-> FALSE, error |-> "Invalid LAS file signature"]
  ELSE IF ~(/\ Readable(buf, 107, 4) /\ Readable(buf, 24, 1)
            /\ Readable(buf, 25, 1) /\ Readable(buf, 94, 2))
    THEN [valid |-> FALSE, error |-> "Failed to read LAS header"]
  ELSE
    LET legacyNumberOfPoints == getUint32(buf, 107)
        versionMajor == getUint8(buf, 24)
        versionMinor == getUint8(buf, 25)
        headerSize == getUint16(buf, 94)
        extended == versionMajor >= 1 /\ versionMinor >= 4 /\ headerSize >= 375
        low == getUint32(buf, 247)
        high == getUint32(buf, 251)
        count64 == Count64(low, high)
        numberOfPoints == IF extended /\ Positive(count64)
                            THEN count64
                            ELSE FromUint32(legacyNumberOfPoints)
    IN IF extended /\ ~(Readable(buf, 247, 4) /\ Readable(buf, 251, 4))
         THEN [valid |-> FALSE, error |-> "Failed to read LAS header"]
         ELSE [valid |-> TRUE,
               pointCount |-> numberOfPoints,
               estimatedMemory |-> Min2(NumToInt(numberOfPoints), maxPoints) * 24]

\* parseHeader(): the header it stores, or the error it throws.
parseHeader(buf) ==
  IF ~(/\ Readable(buf, 0, 1) /\ Readable(buf, 1, 1)
       /\ Readable(buf, 2, 1) /\ Readable(buf, 3, 1))
    THEN [threw |-> "RangeError"]
  ELSE IF signatureOf(buf) # LASF
    THEN [threw |-> "Invalid LAS file signature"]
  ELSE IF ~(/\ Readable(buf, 24, 1) /\ Readable(buf, 25, 1)
            /\ Readable(buf, 94, 2) /\ Readable(buf, 96, 4)
            /\ Readable(buf, 104, 1) /\ Readable(buf, 105, 2)
            /\ Readable(buf, 107, 4)
            /\ Readable(buf, 131, 8) /\ Readable(buf, 139, 8)
            /\ Readable(buf, 147, 8) /\ Readable(buf, 155, 8)
            /\ Readable(buf, 163, 8) /\ Readable(buf, 171, 8))
    THEN [threw |-> "RangeError"]
  ELSE
    LET versionMajor == getUint8(buf, 24)
        versionMinor == getUint8(buf, 25)
        headerSize == getUint16(buf, 94)
        legacyNumberOfPoints == getUint32(buf, 107)
        wide == versionMajor >= 1 /\ versionMinor >= 4 /\ headerSize >= 375
        low == getUint32(buf, 247)
        high == getUint32(buf, 251)
        count64 == Count64(low, high)
    IN IF wide /\ ~(Readable(buf, 247, 4) /\ Readable(buf, 251, 4))
         THEN [threw |-> "RangeError"]
         ELSE [threw |-> "",
               signature |-> signatureOf(buf),
               versionMajor |-> versionMajor,
               versionMinor |-> versionMinor,
               headerSize |-> headerSize,
               offsetToPointData |-> getUint32(buf, 96),
               pointDataRecordFormat |-> getUint8(buf, 104),
               pointDataRecordLength |-> getUint16(buf, 105),
               numberOfPoints |-> IF wide /\ Positive(count64)
                                    THEN count64
                                    ELSE FromUint32(legacyNumberOfPoints),
               scaleX |-> getFloat64(buf, 131),
               scaleY |-> getFloat64(buf, 139),
               scaleZ |-> getFloat64(buf, 147),
               offsetX |-> getFloat64(buf, 155),
               offsetY |-> getFloat64(buf, 163),
               offsetZ |-> getFloat64(buf, 171)]

\* readLazHeader(buffer) without the test of the signature.
readLazHeaderAnySignature(buf) ==
  IF ~(/\ Readable(buf, 0, 1) /\ Readable(buf, 1, 1)
       /\ Readable(buf, 2, 1) /\ Readable(buf, 3, 1)
       /\ Readable(buf, 24, 1) /\ Readable(buf, 25, 1)
       /\ Readable(buf, 94, 2) /\ Readable(buf, 96, 4)
       /\ Readable(buf, 104, 1) /\ Readable(buf, 105, 2)
       /\ Readable(buf, 107, 4)
       /\ Readable(buf, 131, 8) /\ Readable(buf, 139, 8)
       /\ Readable(buf, 147, 8) /\ Readable(buf, 155, 8)
       /\ Readable(buf, 163, 8) /\ Readable(buf, 171, 8))
    THEN [threw |-> "RangeError"]
    ELSE [threw |-> "",
          signature |-> signatureOf(buf),
          versionMajor |-> getUint8(buf, 24),
          versionMinor |-> getUint8(buf, 25),
          headerSize |-> getUint16(buf, 94),
          offsetToPointData |-> getUint32(buf, 96),
          pointDataRecordFormat |-> getUint8(buf, 104),
          pointDataRecordLength |-> getUint16(buf, 105),
          numberOfPoints |-> FromUint32(getUint32(buf, 107)),
          scaleX |-> getFloat64(buf, 131),
          scaleY |-> getFloat64(buf, 139),
          scaleZ |-> getFloat64(buf, 147),
          offsetX |-> getFloat64(buf, 155),
          offsetY |-> getFloat64(buf, 163),
          offsetZ |-> getFloat64(buf, 171)]

\* readLazHeader(buffer): the header it returns, or the error it throws.
readLazHeader(buf) ==
  IF ~(/\ Readable(buf, 0, 1) /\ Readable(buf, 1, 1)
       /\ Readable(buf, 2, 1) /\ Readable(buf, 3, 1))
    THEN [threw |-> "RangeError"]
  ELSE IF signatureOf(buf) # LASF
    THEN [threw |-> "Invalid LAZ file signature"]
  ELSE IF ~(/\ Readable(buf, 24, 1) /\ Readable(buf, 25, 1)
            /\ Readable(buf, 94, 2) /\ Readable(buf, 96, 4)
            /\ Readable(buf, 104, 1) /\ Readable(buf, 105, 2)
            /\ Readable(buf, 107, 4)
            /\ Readable(buf, 131, 8) /\ Readable(buf, 139, 8)
            /\ Readable(buf, 147, 8) /\ Readable(buf, 155, 8)
            /\ Readable(buf, 163, 8) /\ Readable(buf, 171, 8))
    THEN [threw |-> "RangeError"]
  ELSE
    LET major == getUint8(buf, 24)
        minor == getUint8(buf, 25)
        size == getUint16(buf, 94)
        legacy == getUint32(buf, 107)
        lazWide == major >= 1 /\ minor >= 4 /\ size >= 375
        lazCount64 == Count64(getUint32(buf, 247), getUint32(buf, 251))
    IN IF lazWide /\ ~(Readable(buf, 247, 4) /\ Readable(buf, 251, 4))
         THEN [threw |-> "RangeError"]
         ELSE [threw |-> "",
               signature |-> signatureOf(buf),
               versionMajor |-> major,
               versionMinor |-> minor,
               headerSize |-> size,
               offsetToPointData |-> getUint32(buf, 96),
               pointDataRecordFormat |-> getUint8(buf, 104),
               pointDataRecordLength |-> getUint16(buf, 105),
               numberOfPoints |-> IF lazWide /\ Positive(lazCount64)
                                    THEN lazCount64
                                    ELSE FromUint32(legacy),
               scaleX |-> getFloat64(buf, 131),
               scaleY |-> getFloat64(buf, 139),
               scaleZ |-> getFloat64(buf, 147),
               offsetX |-> getFloat64(buf, 155),
               offsetY |-> getFloat64(buf, 163),
               offsetZ |-> getFloat64(buf, 171)]

----------------------------------------------------------------------------
(* LASParser.parsePoints.  A colour component is a fraction <<n, d>>.      *)

\* elevationColor(t) for t = <<n, d>> with d > 0.
elevationColor(t) ==
  LET n == IF t[1] < 0 THEN 0 ELSE IF t[1] > t[2] THEN t[2] ELSE t[1]
      d == t[2]
  IN IF 4 * n < d          THEN << <<0, 1>>, <<4 * n, d>>, <<1, 1>> >>
     ELSE IF 2 * n < d     THEN << <<0, 1>>, <<1, 1>>, <<2 * d - 4 * n, d>> >>
     ELSE IF 4 * n < 3 * d THEN << <<4 * n - 2 * d, d>>, <<1, 1>>, <<0, 1>> >>
     ELSE                       << <<1, 1>>, <<4 * d - 4 * n, d>>, <<0, 1>> >>

\* The switch on the point format: hasRGB.
hasRGB(format) == format \in {2, 3, 5, 7, 8, 10}

\* The switch on the point format: rgbOffset.
rgbOffset(format) ==
  CASE format = 2 -> 20
    [] format \in {3, 5} -> 28
    [] format \in {7, 8, 10} -> 30
    [] OTHER -> 0

\* readLoop testing only that the record starts inside the buffer.
RECURSIVE readLoopStartInside(_, _, _, _, _, _)
readLoopStartInside(buf, h, totalPoints, step, i, rawPoints) ==
  LET offset == Uint32ToInt(h.offsetToPointData) + i * h.pointDataRecordLength
  IN IF ~(i < totalPoints) THEN rawPoints
     ELSE IF offset > buf.byteLength THEN rawPoints
     ELSE readLoopStartInside(buf, h, totalPoints, step, i + step,
            Append(rawPoints,
              [lon |-> getInt32(buf, offset) * h.scaleX + h.offsetX,
               lat |-> getInt32(buf, offset + 4) * h.scaleY + h.offsetY,
               z |-> getInt32(buf, offset + 8) * h.scaleZ + h.offsetZ,
               offset |-> offset]))

\* readLoop advancing by one record whatever the step is.
RECURSIVE readLoopEveryRecord(_, _, _, _, _, _)
readLoopEveryRecord(buf, h, totalPoints, step, i, rawPoints) ==
  LET offset == Uint32ToInt(h.offsetToPointData) + i * h.pointDataRecordLength
  IN IF ~(i < totalPoints) THEN rawPoints
     ELSE IF offset + 12 > buf.byteLength THEN rawPoints
     ELSE readLoopEveryRecord(buf, h, totalPoints, step, i + 1,
            Append(rawPoints,
              [lon |-> getInt32(buf, offset) * h.scaleX + h.offsetX,
               lat |-> getInt32(buf, offset + 4) * h.scaleY + h.offsetY,
               z |-> getInt32(buf, offset + 8) * h.scaleZ + h.offsetZ,
               offset |-> offset]))

\* The first loop: the records sampled until the count or the buffer ends.
RECURSIVE readLoop(_, _, _, _, _, _)
readLoop(buf, h, totalPoints, step, i, rawPoints) ==
  LET offset == Uint32ToInt(h.offsetToPointData) + i * h.pointDataRecordLength
  IN IF ~(i < totalPoints) THEN rawPoints
     ELSE IF offset + 12 > buf.byteLength THEN rawPoints
     ELSE readLoop(buf, h, totalPoints, step, i + step,
            Append(rawPoints,
              [lon |-> getInt32(buf, offset) * h.scaleX + h.offsetX,
               lat |-> getInt32(buf, offset + 4) * h.scaleY + h.offsetY,
               z |-> getInt32(buf, offset + 8) * h.scaleZ + h.offsetZ,
               offset |-> offset]))

\* colorOf with every colour block read as 8-bit.
colorOfAlways8(buf, h, pt, minZ, zRange) ==
  LET format == h.pointDataRecordFormat
      t == <<pt.z - minZ, zRange>>
  IN IF hasRGB(format) /\ pt.offset + rgbOffset(format) + 6 <= buf.byteLength
       THEN LET red == getUint16(buf, pt.offset + rgbOffset(format))
                green == getUint16(buf, pt.offset + rgbOffset(format) + 2)
                blue == getUint16(buf, pt.offset + rgbOffset(format) + 4)
            IN IF red > 0 \/ green > 0 \/ blue > 0
                 THEN << <<red, 255>>, <<green, 255>>, <<blue, 255>> >>
                 ELSE << <<1, 2>>, <<1, 2>>, <<1, 2>> >>
       ELSE elevationColor(t)

\* The second loop's colour of one point.
colorOf(buf, h, pt, minZ, zRange) ==
  LET format == h.pointDataRecordFormat
      t == <<pt.z - minZ, zRange>>
  IN IF hasRGB(format) /\ pt.offset + rgbOffset(format) + 6 <= buf.byteLength
       THEN LET red == getUint16(buf, pt.offset + rgbOffset(format))
                green == getUint16(buf, pt.offset + rgbOffset(format) + 2)
                blue == getUint16(buf, pt.offset + rgbOffset(format) + 4)
                rgb == IF red > 255 \/ green > 255 \/ blue > 255
                         THEN << <<red, 65535>>, <<green, 65535>>, <<blue, 65535>> >>
                       ELSE IF red > 0 \/ green > 0 \/ blue > 0
                         THEN << <<red, 255>>, <<green, 255>>, <<blue, 255>> >>
                       ELSE << <<1, 2>>, <<1, 2>>, <<1, 2>> >>
            IN IF rgb[1][1] = 0 /\ rgb[2][1] = 0 /\ rgb[3][1] = 0
                 THEN elevationColor(t)
                 ELSE rgb
       ELSE elevationColor(t)

\* Math.floor(totalPoints / 100) || 1.
progressInterval(totalPoints) ==
  IF totalPoints \div 100 = 0 THEN 1 ELSE totalPoints \div 100

\* (i / totalPoints) * 50, the value reported while records are read.
readProgress(i, totalPoints) == <<50 * i, totalPoints>>

\* The value reported while records are colourized, without the 50 of the
\* first phase.
colourProgressFromZero(i, numPoints) == <<50 * i, numPoints>>

\* 50 + (i / numPoints) * 50, the value reported while records are
\* colourized.
colourProgress(i, numPoints) == <<50 * numPoints + 50 * i, numPoints>>

\* The loop indices, among the first n of the given stride, at which a loop
\* reports: those with i % progressInterval === 0.
Reporting(n, stride, interval) ==
  SelectSeq([k \in 1 .. n |-> (k - 1) * stride],
            LAMBDA i : i % interval = 0)

\* The calls of onProgress during parsePoints, in order: the first loop's,
\* the second loop's, and the closing onProgress(100).
progressCalls(totalPoints, step, numPoints) ==
  LET interval == progressInterval(totalPoints)
      reads == Reporting(numPoints, step, interval)
      colourings == Reporting(numPoints, 1, interval)
  IN [k \in DOMAIN reads |->
        [phase |-> "read", value |-> readProgress(reads[k], totalPoints)]]
     \o [k \in DOMAIN colourings |->
           [phase |-> "colourize",
            value |-> colourProgress(colourings[k], numPoints)]]
     \o <<[phase |-> "done", value |-> <<100, 1>>]>>

\* parsePoints(): what it returns and what it adds to this.header.  The
\* positions are kept before the multiplication by the metres per degree:
\* twice the distance from the centre, in degrees (x, y) and metres (z).
parsePoints(buf, h) ==
  LET totalPoints == NumToInt(h.numberOfPoints)
      step == IF totalPoints > maxPoints
                THEN (totalPoints + maxPoints - 1) \div maxPoints
                ELSE 1
      rawPoints == readLoop(buf, h, totalPoints, step, 0, << >>)
      numPoints == Len(rawPoints)
      I == DOMAIN rawPoints
  IN IF numPoints = 0
       THEN [positions |-> << >>, colors |-> << >>, rawPoints |-> << >>,
             loadedPoints |-> 0, bounds |-> << >>,
             progress |-> progressCalls(totalPoints, step, 0)]
       ELSE
         LET minLon == SetMin({rawPoints[i].lon : i \in I})
             maxLon == SetMax({rawPoints[i].lon : i \in I})
             minLat == SetMin({rawPoints[i].lat : i \in I})
             maxLat == SetMax({rawPoints[i].lat : i \in I})
             minZ == SetMin({rawPoints[i].z : i \in I})
             maxZ == SetMax({rawPoints[i].z : i \in I})
             zRange == IF maxZ - minZ = 0 THEN 1 ELSE maxZ - minZ
         IN [positions |->
               [i \in I |-> <<2 * rawPoints[i].lon - (minLon + maxLon),
                              2 * rawPoints[i].lat - (minLat + maxLat),
                              2 * rawPoints[i].z - (minZ + maxZ)>>],
             colors |-> [i \in I |-> colorOf(buf, h, rawPoints[i], minZ, zRange)],
             rawPoints |-> rawPoints,
             loadedPoints |-> numPoints,
             progress |-> progressCalls(totalPoints, step, numPoints),
             bounds |-> <<[lon |-> <<minLon, maxLon>>,
                           lat |-> <<minLat, maxLat>>,
                           z |-> <<minZ, maxZ>>]>>]

----------------------------------------------------------------------------
(* The buffers the parser is run on.                                       *)

MaxRecords == 2

\* The bytes bs laid out from offset off.
Put(off, bs) == [o \in off .. (off + Len(bs) - 1) |-> bs[o - off + 1]]

LE16(v) == <<v % 256, v \div 256>>

LE32(v) == <<v % 256, (v \div 256) % 256, (v \div 65536) % 256, v \div 16777216>>

\* The header fields at their offsets.
HeaderBytes(sig, major, minor, hs, otp, format, recordLen, legacy) ==
  Put(0, sig) @@ Put(24, <<major, minor>>) @@ Put(94, LE16(hs))
    @@ Put(96, LE32(otp)) @@ Put(104, <<format>>) @@ Put(105, LE16(recordLen))
    @@ Put(107, legacy)

\* Scale 1 and offset 0 on the three axes.
UnitFloats ==
  (131 :> 1) @@ (139 :> 1) @@ (147 :> 1) @@ (155 :> 0) @@ (163 :> 0) @@ (171 :> 0)

\* Headers of both revisions, with legacy and extended counts that differ,
\* in buffers cut inside the signature, before the legacy count, before
\* the scale fields, inside the extended count, and complete.
HeaderBuffers ==
  {[byteLength |-> n,
    bytes |-> HeaderBytes(sig, major, minor, hs, 375, 0, 20, legacy)
                @@ Put(247, low) @@ Put(251, high),
    floats |-> UnitFloats] :
     sig \in {LASF, <<76, 65, 83, 88>>},
     major \in {0, 1},
     minor \in {3, 4},
     hs \in {374, 375},
     legacy \in {<<5, 0, 0, 0>>, <<255, 255, 255, 255>>},
     low \in {<<0, 0, 0, 0>>, <<1, 0, 0, 0>>, <<255, 255, 255, 255>>},
     high \in {<<0, 0, 0, 0>>, <<0, 0, 32, 0>>, <<255, 255, 255, 255>>},
     n \in {2, 100, 150, 254, 400}}

\* The standard record length of the point formats used.
RecordLen(format) == CASE format = 0 -> 20 [] format = 2 -> 26 [] format = 3 -> 34

\* Byte k of record i (from 0) of a file of the given format.
PointByte(format, rec, i, k) ==
  CASE k \in 0 .. 3 -> LE32(i)[k + 1]
    [] k \in 8 .. 11 -> LE32(rec.z)[k - 7]
    [] hasRGB(format) /\ k \in rgbOffset(format) .. (rgbOffset(format) + 5) ->
         (LE16(rec.rgb[1]) \o LE16(rec.rgb[2]) \o LE16(rec.rgb[3]))
           [k - rgbOffset(format) + 1]
    [] OTHER -> 0

RecordValues ==
  [z : {0, 10}, rgb : {<<0, 0, 0>>, <<255, 0, 0>>, <<300, 0, 0>>}]

\* LAS 1.2 files of one to MaxRecords points: complete, or cut short by 3, 10
\* or 24 bytes, which is inside or before a colour block, or inside the
\* coordinates of the last record.
PointBuffers ==
  UNION {
    {[byteLength |-> 227 + n * RecordLen(format) - cut,
      bytes |-> HeaderBytes(LASF, 1, 2, 227, 227, format, RecordLen(format),
                            LE32(n))
                  @@ [o \in 227 .. (227 + n * RecordLen(format) - 1) |->
                        PointByte(format,
                                  recs[((o - 227) \div RecordLen(format)) + 1],
                                  (o - 227) \div RecordLen(format),
                                  (o - 227) % RecordLen(format))],
      floats |-> UnitFloats] :
        recs \in [1 .. n -> RecordValues], cut \in {0, 3, 10, 24}} :
    n \in 1 .. MaxRecords, format \in {0, 2, 3}}

Buffers == HeaderBuffers \cup PointBuffers

MaxSampled == 5

\* Complete LAS 1.2 files of one to MaxSampled points of format 0; point i
\* (from 0) has z = i.
SampleBuffers ==
  {[byteLength |-> 227 + n * 20,
    bytes |-> HeaderBytes(LASF, 1, 2, 227, 227, 0, 20, LE32(n))
                @@ [o \in 227 .. (227 + n * 20 - 1) |->
                      PointByte(0, [z |-> (o - 227) \div 20, rgb |-> <<0, 0, 0>>],
                                (o - 227) \div 20, (o - 227) % 20)],
    floats |-> UnitFloats] : n \in 1 .. MaxSampled}

\* Complete LAS 1.2 files of three points of format 0 that are not spread
\* evenly: point i (from 0) has x = i and z = i * i * spread.
SkewBuffers ==
  {[byteLength |-> 227 + 3 * 20,
    bytes |-> HeaderBytes(LASF, 1, 2, 227, 227, 0, 20, LE32(3))
                @@ [o \in 227 .. (227 + 3 * 20 - 1) |->
                      PointByte(0, [z |-> ((o - 227) \div 20) * ((o - 227) \div 20)
                                            * spread,
                                    rgb |-> <<0, 0, 0>>],
                                (o - 227) \div 20, (o - 227) % 20)],
    floats |-> UnitFloats] : spread \in {1, 2}}

\* Complete LAS 1.2 files of two points whose header declares a colour
\* format (2 or 3) but a record length of 20, too short for a colour block;
\* point i (from 0) has x = i + 1.
ShortRecordBuffers ==
  {[byteLength |-> 227 + 2 * 20,
    bytes |-> HeaderBytes(LASF, 1, 2, 227, 227, format, 20, LE32(2))
                @@ [o \in 227 .. (227 + 2 * 20 - 1) |->
                      PointByte(0, [z |-> 10 * ((o - 227) \div 20),
                                    rgb |-> <<0, 0, 0>>],
                                ((o - 227) \div 20) + 1, (o - 227) % 20)],
    floats |-> UnitFloats] : format \in {2, 3}}

\* options.maxPoints as the callers of the model give it; 0 is no option.
MaxPointsOptions == {0, 1, 2, 3}

\* The constructor's arguments: a buffer and options.maxPoints.
ParserInputs ==
  (Buffers \X {0}) \cup (SampleBuffers \X MaxPointsOptions)
    \cup (SkewBuffers \X {0}) \cup (ShortRecordBuffers \X {0})

----------------------------------------------------------------------------
(* The parser run on a buffer.                                             *)

\* new LASParser(arrayBuffer, options): this.maxPoints is
\* options.maxPoints || 2000000, where option 0 stands for an absent one.
InitParser ==
  /\ ViewerStart
  /\ LazIdle
  /\ ControlsIdle
  /\ LoaderIdle
  /\ \E input \in ParserInputs :
       /\ buffer = input[1]
       /\ maxPoints = IF input[2] = 0 THEN 2000000 ELSE input[2]
  /\ validated = << >>
  /\ header = << >>
  /\ parsed = << >>
  /\ lazHeader = << >>

\* parser.validate().
Validate ==
  /\ validated = << >>
  /\ validated' = <<validate(buffer)>>
  /\ UNCHANGED <<viewerVars, lazVars, loaderVars, buffer, maxPoints, header,
                 parsed, lazHeader,
                 controlVars>>

\* parser.parse(): parseHeader(), then parsePoints(), which adds the loaded
\* point count and the bounds to this.header; a throw of parseHeader leaves
\* this.header as it was.
Parse ==
  /\ parsed = << >>
  /\ LET h == parseHeader(buffer)
     IN IF h.threw # ""
          THEN /\ parsed' = <<[threw |-> h.threw]>>
               /\ header' = header
          ELSE LET points == parsePoints(buffer, h)
               IN /\ parsed' = <<[threw |-> "", points |-> points]>>
                  /\ header' = <<h @@ [loadedPoints |-> points.loadedPoints,
                                       bounds |-> points.bounds]>>
  /\ UNCHANGED <<viewerVars, lazVars, loaderVars, buffer, maxPoints,
                 validated, lazHeader,
                 controlVars>>

\* readLazHeader(buffer), the header read of decompressLaz.
ReadLazHeader ==
  /\ lazHeader = << >>
  /\ lazHeader' = <<readLazHeader(buffer)>>
  /\ UNCHANGED <<viewerVars, lazVars, loaderVars, buffer, maxPoints,
                 validated, header, parsed,
                 controlVars>>

NextParser ==
  \/ Validate
  \/ Parse
  \/ ReadLazHeader

ParseSpec == InitParser /\ [][NextParser]_vars

----------------------------------------------------------------------------
(* decompressLaz and the laz-perf engine it drives.                        *)
(*                                                                         *)
(* The engine is the environment: open may throw, getCount and             *)
(* getPointLength return what the compressed stream says, and getPoint     *)
(* may throw at some record.  The function declares laszip twice (lines    *)
(* 133 and 142); the model follows its statements in order, so each `new   *)
(* module.LASZip()` makes a handle, named by its line.                     *)

MaxLazPoints == 2

MaxCalls == 2

\* The lengths getPointLength() returns.
LazPointLengths == {3, 20}

\* What the engine does in one call of decompressLaz: failAt is the record
\* at which getPoint throws, none if it is not below count.
Engines ==
  [openThrows : BOOLEAN, count : 0 .. MaxLazPoints, length : LazPointLengths,
   failAt : 0 .. MaxLazPoints]

\* Byte k of record i as getPoint leaves it in the heap.
EngineByte(i, k) == (200 + 7 * i + k) % 256

\* originalFormat & 0x3F, with an AND that keeps the low seven bits.
clearTopBit(b) == b % 128

\* originalFormat & 0x3F.
clearCompressionBits(b) == b % 64

\* The loop over the points from record i on: getPoint, then
\* outputView.set(pointData, offsetToPointData + i * pointLength).
RECURSIVE decompressPoints(_, _, _, _, _)
decompressPoints(out, otp, i, pointCount, pointLength) ==
  IF ~(i < pointCount)
    THEN out
    ELSE decompressPoints(
           [o \in DOMAIN out |->
              IF o >= otp + i * pointLength /\ o < otp + (i + 1) * pointLength
                THEN EngineByte(i, o - (otp + i * pointLength))
                ELSE out[o]],
           otp, i + 1, pointCount, pointLength)

\* The finally block: laszip.delete() on the handle of line 145, then
\* module._free(filePtr).
lazFinally(r) ==
  [r EXCEPT !.handles = r.handles \ {145},
            !.heap = r.heap \ {"filePtr"},
            !.engineCalls = r.engineCalls \o <<"delete", "_free">>]

\* decompressLaz(lazBuffer) after its await, with the engine behaving as
\* eng: what it throws or returns, the handles and heap blocks left alive,
\* and the engine calls it made.
decompressLaz(buf, eng) ==
  LET hdr == readLazHeader(buf)
  IN IF hdr.threw # ""
       THEN [threw |-> hdr.threw, output |-> << >>, handles |-> {},
             heap |-> {}, engineCalls |-> << >>]
     ELSE
       LET otp == Uint32ToInt(hdr.offsetToPointData)
           totalSize == otp + eng.count * eng.length
           opened == [threw |-> "", output |-> << >>, handles |-> {133, 145},
                      heap |-> {"filePtr"},
                      engineCalls |-> <<"new LASZip", "_malloc", "new LASZip",
                                        "open">>]
           counted == [opened EXCEPT !.engineCalls =
                         @ \o <<"getCount", "getPointLength">>]
           copied == [o \in 0 .. (totalSize - 1) |->
                        IF o < otp THEN getUint8(buf, o) ELSE 0]
           marked == [copied EXCEPT ![104] = clearCompressionBits(copied[104])]
           decoded == Min2(eng.failAt + 1, eng.count)
           looped == [counted EXCEPT
                        !.heap = @ \cup {"pointPtr"},
                        !.engineCalls =
                          @ \o <<"_malloc">> \o [k \in 1 .. decoded |-> "getPoint"]]
       IN IF eng.openThrows
            THEN lazFinally([opened EXCEPT !.threw = "Failed to open LAZ file"])
          ELSE IF otp > buf.byteLength \/ totalSize <= 104
            THEN lazFinally([counted EXCEPT !.threw = "RangeError"])
          ELSE IF eng.failAt < eng.count
            THEN lazFinally([looped EXCEPT !.threw = "getPoint"])
          ELSE lazFinally(
                 [looped EXCEPT
                    !.heap = @ \ {"pointPtr"},
                    !.engineCalls = @ \o <<"_free">>,
                    !.output =
                      <<[byteLength |-> totalSize,
                         bytes |-> decompressPoints(marked, otp, 0, eng.count,
                                                    eng.length),
                         floats |-> [o \in {f \in DOMAIN buf.floats :
                                              f + 8 <= otp} |-> buf.floats[o]]]>>])

\* LAZ files of two points: with and without the compression bits in the
\* format byte, a right and a wrong signature, point data that starts
\* inside the header, after it, or beyond the end of the file, and files cut
\* inside the signature or before the scale fields.
LazBuffers ==
  {[byteLength |-> n,
    bytes |-> HeaderBytes(sig, 1, 2, 227, otp, format, 20, LE32(2))
                @@ Put(227, <<9, 8, 7, 6, 5>>),
    floats |-> UnitFloats] :
     sig \in {LASF, <<76, 65, 83, 88>>},
     otp \in {100, 227, 300},
     format \in {3, 128, 195},
     n \in {2, 150, 240}}

InitLaz ==
  /\ ViewerStart
  /\ LoaderIdle
  /\ LazIdle
  /\ ControlsIdle
  /\ buffer \in LazBuffers
  /\ maxPoints = 2000000
  /\ validated = << >>
  /\ header = << >>
  /\ parsed = << >>
  /\ lazHeader = << >>

\* initLazPerf() without the test of lazPerfInitializing.
initLazPerfNoPending(l) ==
  IF l.LazPerf # 0
    THEN [state |-> l, awaits |-> l.LazPerf]
    ELSE [state |-> [l EXCEPT !.created = @ + 1,
                              !.lazPerfInitializing = l.created + 1],
          awaits |-> l.created + 1]

\* initLazPerf(): the module state it leaves and the promise the caller
\* awaits.  Promise p is the one of the p-th createLazPerf() call and
\* resolves to module p; a caller handed LazPerf itself awaits a promise
\* that is already resolved.
initLazPerf(l) ==
  IF l.LazPerf # 0
    THEN [state |-> l, awaits |-> l.LazPerf]
  ELSE IF l.lazPerfInitializing # 0
    THEN [state |-> l, awaits |-> l.lazPerfInitializing]
    ELSE [state |-> [l EXCEPT !.created = @ + 1,
                              !.lazPerfInitializing = l.created + 1],
          awaits |-> l.created + 1]

\* A call of decompressLaz up to its await of initLazPerf().
DecompressLazCall ==
  /\ laz.started < MaxCalls
  /\ LET init == initLazPerf(laz)
     IN laz' = [init.state EXCEPT !.started = @ + 1,
                                  !.waiting = Append(@, init.awaits)]
  /\ UNCHANGED <<viewerVars, parserVars, loaderVars, controlVars>>

\* The promise of the p-th createLazPerf() resolves: LazPerf = module.
CreateLazPerfResolves(p) ==
  /\ p <= laz.created
  /\ p \notin laz.resolved
  /\ laz' = [laz EXCEPT !.LazPerf = p, !.resolved = @ \cup {p}]
  /\ UNCHANGED <<viewerVars, parserVars, loaderVars, controlVars>>

\* The call at place i of the waiting ones resumes after its await, the
\* promise it awaits being resolved, and runs to its end.
DecompressLazResume(i) ==
  /\ i \in DOMAIN laz.waiting
  /\ laz.waiting[i] \in laz.resolved
  /\ \E eng \in Engines :
       laz' = [laz EXCEPT !.waiting = RemoveAt(@, i),
                          !.modules = @ \cup {laz.waiting[i]},
                          !.engine = <<eng>>,
                          !.last = <<decompressLaz(buffer, eng)>>]
  /\ UNCHANGED <<viewerVars, parserVars, loaderVars, controlVars>>

NextLaz ==
  \/ DecompressLazCall
  \/ \E p \in 1 .. MaxCalls : CreateLazPerfResolves(p)
  \/ \E i \in 1 .. MaxCalls : DecompressLazResume(i)

LazSpec == InitLaz /\ [][NextLaz]_vars

----------------------------------------------------------------------------
(* useFileLoader: loadFile, parseWithWorker and the worker's handler.      *)
(*                                                                         *)
(* `buffer` holds the bytes of the file; fileLoader.detached says that the *)
(* calling thread's ArrayBuffer has been transferred to the worker, after  *)
(* which only the worker can read the bytes.                               *)

\* validate() and parse() on a parser of the buffer, as the main thread
\* path of loadFile and the worker's handler both run them: the data
\* returned, or the message of the error thrown.
parseBuffer(buf) ==
  LET validation == validate(buf)
  IN IF ~validation.valid
       THEN [threw |-> validation.error]
     ELSE
       LET h == parseHeader(buf)
       IN IF h.threw # ""
            THEN [threw |-> h.threw]
            ELSE LET points == parsePoints(buf, h)
                 IN [threw |-> "",
                     header |-> h @@ [loadedPoints |-> points.loadedPoints,
                                      bounds |-> points.bounds],
                     positions |-> points.positions,
                     colors |-> points.colors]

\* The main thread parsing of loadFile: new LASParser(buffer, ...) makes a
\* DataView, which throws a TypeError on a detached buffer.
mainThreadParse(buf, detached) ==
  IF detached THEN [threw |-> "TypeError"] ELSE parseBuffer(buf)

\* self.onmessage of the worker: the message it posts back.
workerOnMessage(buf) ==
  LET r == parseBuffer(buf)
  IN IF r.threw # ""
       THEN [type |-> "error", error |-> r.threw]
       ELSE [type |-> "complete",
             data |-> [header |-> r.header, positions |-> r.positions,
                       colors |-> r.colors]]

\* The end of loadFile: return or setError and rethrow, then
\* setLoading(false).
finishLoad(fl, r) ==
  [fl EXCEPT !.pc = "done",
             !.result = <<r>>,
             !.error = IF r.threw # "" THEN r.threw ELSE @,
             !.loading = FALSE]

\* What parseWithWorker can do before it returns its promise.
WorkerStarts == {"constructorThrows", "postMessageThrows", "posted"}

\* Whole files of one to MaxSampled points, and files validate() or
\* parseHeader() reject: a wrong signature, a file cut before the legacy
\* count, and one cut before the scale fields.
LoaderBuffers ==
  SampleBuffers
    \cup {[byteLength |-> 247,
           bytes |-> HeaderBytes(<<76, 65, 83, 88>>, 1, 2, 227, 227, 0, 20,
                                 LE32(1)),
           floats |-> UnitFloats]}
    \cup {[byteLength |-> n,
           bytes |-> HeaderBytes(LASF, 1, 2, 227, 227, 0, 20, LE32(1)),
           floats |-> UnitFloats] : n \in {100, 150}}

\* The hook has mounted; the host has Worker or not, and the caller allows
\* the worker or passes useWorker: false.
InitFileLoader ==
  /\ ViewerStart
  /\ LazIdle
  /\ ControlsIdle
  /\ buffer \in LoaderBuffers
  /\ \E option \in MaxPointsOptions :
       maxPoints = IF option = 0 THEN 2000000 ELSE option
  /\ validated = << >>
  /\ header = << >>
  /\ parsed = << >>
  /\ lazHeader = << >>
  /\ \E sw \in BOOLEAN, uw \in BOOLEAN :
       fileLoader = [pc |-> "idle", supportsWorkers |-> sw, useWorker |-> uw,
                     detached |-> FALSE, message |-> << >>,
                     workerFailed |-> "", workerRef |-> FALSE,
                     terminated |-> FALSE, cancelled |-> FALSE,
                     loading |-> FALSE, error |-> "", result |-> << >>]

\* loadFile(file, options) up to its await of file.arrayBuffer().
FileLoaderCall ==
  /\ fileLoader.pc = "idle"
  /\ fileLoader' = [fileLoader EXCEPT !.pc = "arrayBuffer", !.loading = TRUE,
                                      !.error = ""]
  /\ UNCHANGED <<viewerVars, parserVars, lazVars,
                 controlVars>>

\* The buffer has arrived.  With a worker, parseWithWorker creates it and
\* posts the buffer with a transfer; a throw of the constructor or of
\* postMessage rejects the promise with the buffer still attached, and
\* loadFile falls through to the main thread.  Without a worker loadFile
\* parses on the main thread.
BufferArrives ==
  /\ fileLoader.pc = "arrayBuffer"
  /\ IF fileLoader.supportsWorkers /\ fileLoader.useWorker
       THEN \E start \in WorkerStarts :
              fileLoader' =
                IF start = "posted"
                  THEN [fileLoader EXCEPT !.pc = "worker", !.detached = TRUE]
                  ELSE finishLoad([fileLoader EXCEPT !.workerFailed = start],
                                  mainThreadParse(buffer, FALSE))
       ELSE fileLoader' = finishLoad(fileLoader,
                                     mainThreadParse(buffer, FALSE))
  /\ UNCHANGED <<viewerVars, parserVars, lazVars,
                 controlVars>>

\* The worker handles the message and posts its answer.
WorkerOnMessage ==
  /\ fileLoader.pc = "worker"
  /\ ~fileLoader.terminated
  /\ fileLoader' = [fileLoader EXCEPT !.pc = "message",
                                      !.message = <<workerOnMessage(buffer)>>]
  /\ UNCHANGED <<viewerVars, parserVars, lazVars,
                 controlVars>>

\* worker.onerror: the worker's script failed; the promise is rejected and
\* loadFile falls through to the main thread.
WorkerOnError ==
  /\ fileLoader.pc = "worker"
  /\ ~fileLoader.terminated
  /\ fileLoader' = finishLoad([fileLoader EXCEPT !.workerFailed = "onerror"],
                              mainThreadParse(buffer, fileLoader.detached))
  /\ UNCHANGED <<viewerVars, parserVars, lazVars,
                 controlVars>>

\* worker.onmessage on the main thread: 'complete' resolves the promise and
\* loadFile returns the data; 'error' rejects it and loadFile falls through
\* to the main thread.
MainOnMessage ==
  /\ fileLoader.pc = "message"
  /\ ~fileLoader.terminated
  /\ LET m == fileLoader.message[1]
     IN fileLoader' =
          IF m.type = "complete"
            THEN finishLoad(fileLoader,
                            [threw |-> "", header |-> m.data.header,
                             positions |-> m.data.positions,
                             colors |-> m.data.colors])
            ELSE finishLoad([fileLoader EXCEPT !.workerFailed = "error"],
                            mainThreadParse(buffer, fileLoader.detached))
  /\ UNCHANGED <<viewerVars, parserVars, lazVars,
                 controlVars>>

\* cancel(): terminate the worker workerRef.current holds, if any, and
\* setLoading(false).  workerRef.current is null from useRef(null) on:
\* parseWithWorker keeps its worker in a local and nothing assigns the ref.
\* `cancelled` records that a worker-based decode was in flight.
Cancel ==
  /\ ~fileLoader.cancelled
  /\ fileLoader' =
       [fileLoader EXCEPT
          !.terminated = IF fileLoader.workerRef THEN TRUE ELSE @,
          !.workerRef = FALSE,
          !.loading = FALSE,
          !.cancelled = fileLoader.pc \in {"worker", "message"}]
  /\ UNCHANGED <<viewerVars, parserVars, lazVars,
                 controlVars>>

NextFileLoader ==
  \/ Cancel
  \/ FileLoaderCall
  \/ BufferArrives
  \/ WorkerOnMessage
  \/ WorkerOnError
  \/ MainOnMessage

FileLoaderSpec == InitFileLoader /\ [][NextFileLoader]_vars

----------------------------------------------------------------------------
(* LASViewer.loadFile with its await: loads that overlap.                  *)

\* loadFile(file) up to its await of processFile or file.arrayBuffer().
BeginLoad(f) ==
  /\ ~userDone
  /\ events < MaxEvents
  /\ events' = events + 1
  /\ loads' = Append(loads, f)
  /\ lastStarted' = f
  /\ loading' = TRUE
  /\ error' = ""
  /\ UNCHANGED <<state, pointColor, rotationZ, fileInfo, updates, threeRef,
                 debounceTimerRef, lastAppliedRef, timers, fired, lastRequest,
                 stored, before, userDone, parserVars, lazVars, loaderVars,
                 controlVars>>

\* The await of the load at place i of the waiting ones is over: the rest
\* of loadFile runs for its file, and the finally block clears the flag.  The promises of different loads settle
\* in any order.
CompleteLoad(i) ==
  /\ i \in DOMAIN loads
  /\ showFile(loads[i])
  /\ loads' = RemoveAt(loads, i)
  /\ loading' = FALSE
  /\ UNCHANGED <<events, lastStarted, error, parserVars, lazVars, loaderVars,
                 controlVars>>

NextLoad ==
  \/ Render
  \/ \E id \in TimerIds : TimerFire(id)
  \/ \E f \in FileIds : BeginLoad(f)
  \/ \E i \in 1 .. MaxEvents : CompleteLoad(i)

LoadSpec == InitViewer /\ [][NextLoad]_vars

----------------------------------------------------------------------------
(* LASViewer.loadFile on a file that fails.  Besides the files of `Files`, *)
(* which load, the user can pick the file whose bytes are `buffer`, named  *)
(* either *.las or *.laz.                                                  *)

\* The file of bytes `buffer` with a .las name.
BufferAsLas == 3

\* The file of bytes `buffer` with a .laz name.
BufferAsLaz == 4

BufferFiles == {BufferAsLas, BufferAsLaz}

\* The try block of loadFile up to the return of parser.parse(), on the
\* bytes buf: processFile for a .laz name, then validate() and parse().
\* The message of what it throws, "" if it throws nothing.  The result of
\* decompressLaz is computed once, as the code does.
loadThrows(buf, isLaz, eng) ==
  IF isLaz
    THEN CHOOSE message \in
           {IF d.threw # ""
              THEN d.threw
              ELSE parseBuffer(d.output[1]).threw :
              d \in {decompressLaz(buf, eng)}} : TRUE
    ELSE parseBuffer(buf).threw

\* The catch and finally blocks without setLoading(false).
loadCatchStillLoading(message) == [loading |-> TRUE, error |-> message]

\* The catch and finally blocks: setError(err.message), setLoading(false).
loadCatch(message) == [loading |-> FALSE, error |-> message]

\* Files that fail as .las: a wrong signature, a file cut before the legacy
\* count; and whole LAZ files with a right or wrong signature whose point
\* data starts after the header.
FailingBuffers ==
  {b \in LoaderBuffers \ SampleBuffers : b.byteLength # 150}
    \cup {b \in LazBuffers : /\ b.byteLength = 240
                             /\ getUint8(b, 104) = 195
                             /\ getUint16(b, 96) = 227}

\* What the engine does in the loads of this part: open throws, getPoint
\* throws at the first record, or one record of 20 bytes is decoded.
LoadEngines ==
  {eng \in Engines :
     /\ eng.length = 20
     /\ eng.count = 1
     /\ eng.failAt \in {0, 1}
     /\ eng.openThrows => eng.failAt = 1}

MaxInFlight == 2

InitLoadFail ==
  /\ ViewerStart
  /\ LazIdle
  /\ ControlsIdle
  /\ LoaderIdle
  /\ buffer \in FailingBuffers
  /\ maxPoints = 2000000
  /\ validated = << >>
  /\ header = << >>
  /\ parsed = << >>
  /\ lazHeader = << >>

\* The load at place i is of the file `buffer` and throws before parse()
\* returns: control goes to the catch block with nothing stored.  The parser,
\* if one was made, keeps the empty header of its constructor, since
\* parseHeader assigns this.header in its last statement only.
FailLoad(i) ==
  /\ i \in DOMAIN loads
  /\ loads[i] \in BufferFiles
  /\ \E eng \in LoadEngines :
       \E message \in {loadThrows(buffer, loads[i] = BufferAsLaz, eng)} :
          /\ message # ""
          /\ loading' = loadCatch(message).loading
          /\ error' = loadCatch(message).error
          /\ parsed' = <<[threw |-> message]>>
  /\ header' = << >>
  /\ loads' = RemoveAt(loads, i)
  /\ UNCHANGED <<state, pointColor, rotationZ, fileInfo, updates, threeRef,
                 debounceTimerRef, lastAppliedRef, timers, fired, lastRequest,
                 stored, before, userDone, events, lastStarted, buffer,
                 maxPoints, validated, lazHeader, lazVars, loaderVars,
                 controlVars>>

\* A call of loadFile while fewer than MaxInFlight calls wait.
BeginLoadOf(f) ==
  /\ Len(loads) < MaxInFlight
  /\ BeginLoad(f)

\* A load of one of the files that load.
CompleteFileLoad(i) ==
  /\ i \in DOMAIN loads
  /\ loads[i] \in FileIds
  /\ CompleteLoad(i)

NextLoadFail ==
  \/ Render
  \/ \E id \in TimerIds : TimerFire(id)
  \/ \E f \in FileIds \cup BufferFiles : BeginLoadOf(f)
  \/ \E i \in 1 .. MaxEvents : CompleteFileLoad(i)
  \/ \E i \in 1 .. MaxEvents : FailLoad(i)

LoadFailSpec == InitLoadFail /\ [][NextLoadFail]_vars

-----------------------------------------------------------------------------
(* OrbitControls: rotation by mouse, touch and buttons, and the view        *)
(* presets.                                                                 *)

\* The most operations of one behaviour.
MaxOps == 4

\* clientX and clientY of the pointer events.
ClientXs == {0, 100}

ClientYs == {0, 100, 600}

\* Math.max(a, b) and Math.min(a, b).
MathMax(a, b) == IF a > b THEN a ELSE b

MathMin(a, b) == IF a < b THEN a ELSE b

\* _rotate(dx, dy).
rotate(c, dx, dy) ==
  [c EXCEPT !.azimuth = @ - dx * rotateSensitivity,
            !.elevation = MathMax(minElevation,
                            MathMin(maxElevation, @ + dy * rotateSensitivity))]

\* One more operation is counted.
ControlsStep(c) ==
  /\ controls.ops < MaxOps
  /\ controls' = [c EXCEPT !.ops = @ + 1]
  /\ UNCHANGED <<viewerVars, parserVars, lazVars, loaderVars>>

OnMouseDown(button, clientX, clientY) ==
  ControlsStep([controls EXCEPT
                  !.dragging = IF button = 0 THEN TRUE ELSE @,
                  !.panning = IF button # 0 /\ button = 2 THEN TRUE ELSE @,
                  !.lastX = clientX, !.lastY = clientY])

\* _onMouseMove: _pan writes the target only.
OnMouseMove(clientX, clientY) ==
  LET dx == clientX - controls.lastX
      dy == clientY - controls.lastY
      moved == [controls EXCEPT !.lastX = clientX, !.lastY = clientY]
  IN ControlsStep(IF controls.dragging THEN rotate(moved, dx, dy) ELSE moved)

\* _onMouseUp, for mouseup and mouseleave.
OnMouseUp ==
  ControlsStep([controls EXCEPT !.dragging = FALSE, !.panning = FALSE])

\* _onTouchStart with n touches, the first at (clientX, clientY).
OnTouchStart(n, clientX, clientY) ==
  ControlsStep(IF n = 1
                 THEN [controls EXCEPT !.touches = n, !.lastX = clientX,
                                       !.lastY = clientY, !.dragging = TRUE]
               ELSE IF n = 2
                 THEN [controls EXCEPT !.touches = n, !.dragging = FALSE]
                 ELSE [controls EXCEPT !.touches = n])

\* _onTouchMove with n touches: one touch rotates while dragging, two
\* touches change the distance only.
OnTouchMove(n, clientX, clientY) ==
  LET dx == clientX - controls.lastX
      dy == clientY - controls.lastY
      touched == [controls EXCEPT !.touches = n]
  IN ControlsStep(IF n = 1 /\ controls.dragging
                    THEN rotate([touched EXCEPT !.lastX = clientX,
                                                !.lastY = clientY], dx, dy)
                    ELSE touched)

\* _onTouchEnd, for touchend and touchcancel.
OnTouchEnd ==
  ControlsStep([controls EXCEPT !.dragging = FALSE, !.touches = 0])

\* reset(extent).
reset ==
  ControlsStep([controls EXCEPT !.azimuth = (PI * 3) \div 4,
                                !.elevation = PI \div 6])

viewTop ==
  ControlsStep([controls EXCEPT !.azimuth = 0,
                                !.elevation = PI \div 2 - 10000])

viewFront ==
  ControlsStep([controls EXCEPT !.azimuth = -(PI \div 2),
                                !.elevation = 10000])

viewRight ==
  ControlsStep([controls EXCEPT !.azimuth = PI, !.elevation = 10000])

viewIsometric ==
  ControlsStep([controls EXCEPT !.azimuth = (PI * 3) \div 4,
                                !.elevation = PI \div 6])

rotateLeft ==
  ControlsStep([controls EXCEPT !.azimuth = @ + PI \div 8])

rotateRight ==
  ControlsStep([controls EXCEPT !.azimuth = @ - PI \div 8])

rotateUp ==
  ControlsStep([controls EXCEPT
                  !.elevation = MathMin(maxElevation, @ + PI \div 16)])

rotateDown ==
  ControlsStep([controls EXCEPT
                  !.elevation = MathMax(minElevation, @ - PI \div 16)])

InitControls ==
  /\ ViewerStart
  /\ ParserIdle
  /\ LazIdle
  /\ LoaderIdle
  /\ ControlsIdle

NextControls ==
  \/ \E button \in 0 .. 2, clientX \in ClientXs, clientY \in ClientYs :
       OnMouseDown(button, clientX, clientY)
  \/ \E clientX \in ClientXs, clientY \in ClientYs :
       OnMouseMove(clientX, clientY)
  \/ OnMouseUp
  \/ \E n \in 1 .. 3, clientX \in ClientXs, clientY \in ClientYs :
       OnTouchStart(n, clientX, clientY)
  \/ \E n \in 1 .. 2, clientX \in ClientXs, clientY \in ClientYs :
       OnTouchMove(n, clientX, clientY)
  \/ OnTouchEnd
  \/ reset
  \/ viewTop
  \/ viewFront
  \/ viewRight
  \/ viewIsometric
  \/ rotateLeft
  \/ rotateRight
  \/ rotateUp
  \/ rotateDown

ControlsSpec == InitControls /\ [][NextControls]_vars

----------------------------------------------------------------------------
(* Properties.                                                             *)

ValidRange(r) == 0 <= r.min /\ r.min < r.max /\ r.max <= 100

\* C1: after any sequence of slider writes, resets and initializations,
\* every axis range of the slicer state satisfies 0 <= min < max <= 100.
C1_RangesValid == \A axis \in Axes : ValidRange(state[axis])

\* C1 witness: a minimum slider was moved onto the maximum (100) and the
\* write was replaced by one that keeps a gap of 1.
C1_Witness == \E axis \in Axes : state[axis] = [min |-> 99, max |-> 100]

\* C2: the original position and colour buffers hold what the load stored,
\* whatever slicer and colour operations have run since.
C2_OriginalsUntouched ==
  stored # 0 =>
    /\ threeRef.originalPositions = Files[stored].positions
    /\ threeRef.originalColors = Files[stored].colors

\* C2 witness: a recompute with a colour override has just run and has
\* dropped points from the displayed buffers.
C2_Witness ==
  /\ stored # 0
  /\ Len(fired) = 1
  /\ fired[1].state.enabled
  /\ fired[1].pointColor # "original"
  /\ Len(threeRef.position) < Len(threeRef.originalPositions)

\* The original indices the claimed rule retains: the point rotated by deg
\* lies within the three world-space ranges, bounds included.
Retained(orig, s, deg) ==
  {i \in DOMAIN orig :
     LET wx == orig[i][1] * Cos(deg) - orig[i][2] * Sin(deg)
         wy == orig[i][1] * Sin(deg) + orig[i][2] * Cos(deg)
         wz == orig[i][3]
         lo(b, r) == 100 * b.min + r.min * (b.max - b.min)
         hi(b, r) == 100 * b.min + r.max * (b.max - b.min)
     IN /\ lo(s.boundsX, s.x) <= 100 * wx /\ 100 * wx <= hi(s.boundsX, s.x)
        /\ lo(s.boundsY, s.y) <= 100 * wy /\ 100 * wy <= hi(s.boundsY, s.y)
        /\ lo(s.boundsZ, s.z) <= 100 * wz /\ 100 * wz <= hi(s.boundsZ, s.z)}

\* The k-th smallest element of a set of indices.
Kth(S, k) == CHOOSE i \in S : Cardinality({j \in S : j < i}) = k - 1

\* C3: a recompute in the active state leaves exactly the retained original
\* points, in their local coordinates and in original order; the angle it
\* rotates by is the rendered rotation angle.
C3_RecomputeRetains ==
  (Len(fired) = 1 /\ fired[1].state.enabled /\ threeRef.points) =>
    LET keep == Retained(threeRef.originalPositions, fired[1].state, rotationZ)
    IN /\ Len(threeRef.position) = Cardinality(keep)
       /\ \A k \in DOMAIN threeRef.position :
            threeRef.position[k] = threeRef.originalPositions[Kth(keep, k)]

\* C3 witness: a recompute at a quarter turn has kept some points and
\* dropped others.
C3_Witness ==
  /\ Len(fired) = 1
  /\ fired[1].state.enabled
  /\ threeRef.points
  /\ rotationZ = 90
  /\ Len(threeRef.position) > 0
  /\ Len(threeRef.position) < Len(threeRef.originalPositions)

\* C4: at most one recompute is pending; a pending one is the latest
\* request and its key differs from the last applied key (so none is
\* pending when the latest key equals the last applied key); a recompute that
\* runs is the latest request.
C4_Debounce ==
  /\ Cardinality(timers) <= 1
  /\ \A t \in timers :
       /\ t.id = debounceTimerRef
       /\ lastRequest = <<currentKey(t.closure)>>
       /\ lastAppliedRef # <<currentKey(t.closure)>>
  /\ lastRequest = lastAppliedRef => timers = {}
  /\ Len(fired) = 1 => lastRequest = <<currentKey(fired[1])>>

\* C4 witness: before any load and before any recompute has run, the
\* pending timer is the second one: the first was superseded and will
\* never run.
C4_Witness ==
  /\ \E t \in timers : t.id = 2
  /\ lastAppliedRef = << >>
  /\ stored = 0

\* C5: once the user has made the last change, the recompute for the latest
\* parameters eventually runs: the last applied key becomes the key of the
\* latest request.
C5_LatestEventuallyApplied == userDone ~> (lastAppliedRef = lastRequest)

\* C6: a recompute in the disabled state leaves as many displayed points as
\* there are original points, and a recompute that re-enables the slicer
\* with the ranges, the rotation and the file it had when it was turned off
\* leaves the point count that was displayed then.
C6_ToggleRestoresCounts ==
  (Len(fired) = 1 /\ threeRef.points) =>
    /\ ~fired[1].state.enabled =>
         Len(threeRef.position) = Len(threeRef.originalPositions)
    /\ (/\ fired[1].state.enabled
        /\ Len(before) = 1
        /\ before[1].key = currentKey(fired[1])
        /\ before[1].file = stored) =>
         Len(threeRef.position) = before[1].count

\* No update other than the rotation effect's bounds refresh awaits a
\* render: the rendered slicer state is the one the user last asked for.
NoLoadAwaitsRender ==
  \A i \in DOMAIN updates : updates[i].type = "SET_BOUNDS"

\* C7: whenever slicing is active and no recompute is pending, the colour
\* buffer holds one colour per displayed point, each the point's own
\* original colour or the solid override colour.
C7_ColourPerPoint ==
  (state.enabled /\ timers = {} /\ threeRef.points /\ NoLoadAwaitsRender) =>
    /\ Len(threeRef.color) = Len(threeRef.position)
    /\ \E idx \in [DOMAIN threeRef.position -> DOMAIN threeRef.originalPositions] :
         /\ \A j, k \in DOMAIN idx : j < k => idx[j] < idx[k]
         /\ \A k \in DOMAIN idx :
              /\ threeRef.position[k] = threeRef.originalPositions[idx[k]]
              /\ threeRef.color[k] =
                   IF pointColor = "original"
                     THEN threeRef.originalColors[idx[k]]
                     ELSE ThreeColor(pointColor)

\* The extremes of the original points rotated by deg, per world axis.
RotatedExtremes(orig, deg) ==
  LET wx == {orig[i][1] * Cos(deg) - orig[i][2] * Sin(deg) : i \in DOMAIN orig}
      wy == {orig[i][1] * Sin(deg) + orig[i][2] * Cos(deg) : i \in DOMAIN orig}
      wz == {orig[i][3] : i \in DOMAIN orig}
  IN [x |-> [min |-> SetMin(wx), max |-> SetMax(wx)],
      y |-> [min |-> SetMin(wy), max |-> SetMax(wy)],
      z |-> [min |-> SetMin(wz), max |-> SetMax(wz)]]

\* C8: a filter pass run for an angle uses the bounds of the original points
\* rotated by that angle, and the bounds at 360 degrees are those at 0.
C8_PassUsesBoundsOfItsAngle ==
  /\ (Len(fired) = 1 /\ fired[1].state.enabled /\ threeRef.points) =>
       LET b == RotatedExtremes(threeRef.originalPositions, fired[1].rotationZ)
       IN /\ fired[1].state.boundsX = b.x
          /\ fired[1].state.boundsY = b.y
          /\ fired[1].state.boundsZ = b.z
  /\ threeRef.hasOriginal =>
       updateBoundsForRotation(threeRef.originalPositions, 360)
         = updateBoundsForRotation(threeRef.originalPositions, 0)

\* The extended count field as the integer low + high * 2^32.
Field64(buf) ==
  LET low == getUint32(buf, 247)
      high == getUint32(buf, 251)
  IN <<low[1], low[2], high[1], high[2], 0>>

\* The count the resolution rule selects.
ResolvedCount(buf) ==
  IF /\ getUint8(buf, 24) >= 1
     /\ getUint8(buf, 25) >= 4
     /\ getUint16(buf, 94) >= 375
     /\ Field64(buf) # <<0, 0, 0, 0, 0>>
    THEN Field64(buf)
    ELSE FromUint32(getUint32(buf, 107))

\* C9: the point count that validate(), parseHeader() and readLazHeader
\* resolve is the 64-bit field low + high * 2^32 when the version is at
\* least 1.4, the header length at least 375 and that field nonzero, and
\* the legacy 32-bit field otherwise; so the three agree.
C9_CountResolution ==
  /\ (validated # << >> /\ validated[1].valid) =>
       validated[1].pointCount = ResolvedCount(buffer)
  /\ header # << >> =>
       header[1].numberOfPoints = ResolvedCount(buffer)
  /\ (lazHeader # << >> /\ lazHeader[1].threw = "") =>
       lazHeader[1].numberOfPoints = ResolvedCount(buffer)

\* Two colours are the same fractions.
ColorEq(a, b) == \A k \in 1 .. 3 : a[k][1] * b[k][2] = b[k][1] * a[k][2]

\* C10: a parsed point of a format with a colour block whose three channels
\* are zero has the colour elevationColor((z - minZ) / zRange).
C10_ZeroColourGetsGradient ==
  (parsed # << >> /\ parsed[1].threw = "") =>
    LET points == parsed[1].points
        format == getUint8(buffer, 104)
    IN \A i \in DOMAIN points.colors :
         LET pt == points.rawPoints[i]
             at == pt.offset + rgbOffset(format)
             minZ == points.bounds[1].z[1]
             maxZ == points.bounds[1].z[2]
             zRange == IF maxZ = minZ THEN 1 ELSE maxZ - minZ
         IN (/\ hasRGB(format)
             /\ at + 6 <= buffer.byteLength
             /\ getUint16(buffer, at) = 0
             /\ getUint16(buffer, at + 2) = 0
             /\ getUint16(buffer, at + 4) = 0) =>
              ColorEq(points.colors[i],
                      elevationColor(<<pt.z - minZ, zRange>>))

\* The three channels of the colour block of the parsed point pt, or << >>
\* when the format has no colour block or the block leaves the buffer.
ChannelsOf(pt) ==
  LET format == getUint8(buffer, 104)
      at == pt.offset + rgbOffset(format)
  IN IF hasRGB(format) /\ at + 6 <= buffer.byteLength
       THEN <<getUint16(buffer, at), getUint16(buffer, at + 2),
              getUint16(buffer, at + 4)>>
       ELSE << >>

\* C11: a parsed point whose colour block is not all zero has the colour
\* value/65535 on all three channels when a channel exceeds 255 and
\* value/255 on all three otherwise, and every component of every emitted
\* colour lies in [0,1].
C11_ColourNormalisation ==
  (parsed # << >> /\ parsed[1].threw = "") =>
    LET points == parsed[1].points
    IN \A i \in DOMAIN points.colors :
         LET ch == ChannelsOf(points.rawPoints[i])
             d == IF \E k \in 1 .. 3 : ch[k] > 255 THEN 65535 ELSE 255
         IN /\ (ch # << >> /\ ch # <<0, 0, 0>>) =>
                 ColorEq(points.colors[i], <<<<ch[1], d>>, <<ch[2], d>>, <<ch[3], d>>>>)
            /\ \A k \in 1 .. 3 :
                 /\ points.colors[i][k][2] > 0
                 /\ 0 <= points.colors[i][k][1]
                 /\ points.colors[i][k][1] <= points.colors[i][k][2]

\* C11 witness: a parse has emitted a point whose red channel is 300, read
\* as 16-bit, and a point whose red channel is 255, read as 8-bit.
C11_Witness ==
  /\ parsed # << >>
  /\ parsed[1].threw = ""
  /\ \E i, j \in DOMAIN parsed[1].points.colors :
       /\ ChannelsOf(parsed[1].points.rawPoints[i]) = <<300, 0, 0>>
       /\ parsed[1].points.colors[i][1] = <<300, 65535>>
       /\ ChannelsOf(parsed[1].points.rawPoints[j]) = <<255, 0, 0>>
       /\ parsed[1].points.colors[j][1] = <<255, 255>>

\* The least q with q * b >= a, for a >= 0 and b > 0.
CeilDiv(a, b) == CHOOSE q \in 0 .. a : q * b >= a /\ (q = 0 \/ (q - 1) * b < a)

\* The header fields of the buffer that the sampling rule speaks of: the
\* total point count N (legacy field), the offset to the point data and the
\* record length.
TotalN == getUint16(buffer, 107)

DataStart == getUint16(buffer, 96)

RecLen == getUint16(buffer, 105)

\* The parsed count is N and the buffer holds all N records.
HoldsAllRecords ==
  /\ header # << >>
  /\ header[1].numberOfPoints = <<TotalN, 0, 0, 0, 0>>
  /\ header[1].offsetToPointData = <<DataStart, 0>>
  /\ DataStart + TotalN * RecLen <= buffer.byteLength

\* The step the sampling rule gives for N points and budget maxPoints.
RuleStep == IF TotalN > maxPoints THEN CeilDiv(TotalN, maxPoints) ELSE 1

\* C12: when the buffer holds all N records, parsePoints retains the records
\* 0, step, 2*step, ... below N with step = ceil(N/M) if N > M and 1
\* otherwise; there are ceil(N/step) of them, at most M, and the position
\* and colour buffers hold one triple for each.
C12_Subsampling ==
  (parsed # << >> /\ parsed[1].threw = "" /\ HoldsAllRecords) =>
    LET points == parsed[1].points
        count == CeilDiv(TotalN, RuleStep)
    IN /\ Len(points.rawPoints) = count
       /\ \A k \in 1 .. count :
            points.rawPoints[k].offset = DataStart + (k - 1) * RuleStep * RecLen
       /\ count <= maxPoints
       /\ Len(points.positions) = count
       /\ Len(points.colors) = count
       /\ \A k \in 1 .. count :
            Len(points.positions[k]) = 3 /\ Len(points.colors[k]) = 3

\* C12 witness: five records under a budget of two were sampled with step
\* three, which retains records 0 and 3.
C12_Witness ==
  /\ parsed # << >>
  /\ parsed[1].threw = ""
  /\ HoldsAllRecords
  /\ TotalN = 5
  /\ maxPoints = 2
  /\ Len(parsed[1].points.rawPoints) = 2
  /\ parsed[1].points.rawPoints[2].z = 3

\* The parsed count is N, a number the legacy field holds in its low half.
CountIsN ==
  /\ header # << >>
  /\ header[1].numberOfPoints = <<TotalN, 0, 0, 0, 0>>
  /\ header[1].offsetToPointData = <<DataStart, 0>>

\* The sampled records, numbered from 0, whose coordinates and whose
\* predecessors' coordinates all lie inside the buffer.
FittingPrefix ==
  {k \in 0 .. (CeilDiv(TotalN, RuleStep) - 1) :
     \A j \in 0 .. k :
       DataStart + j * RuleStep * RecLen + 12 <= buffer.byteLength}

\* C13: parse() of a buffer whose header reads does not raise in
\* parsePoints; it returns exactly the sampled records before the first one
\* whose 12 coordinate bytes leave the buffer, loadedPoints is their number,
\* the coordinates of every returned point were read inside the buffer, and
\* a point whose colour block leaves the buffer has the gradient colour, so
\* no colour was read outside either.
C13_PartialFile ==
  (parsed # << >> /\ parsed[1].threw = "" /\ CountIsN) =>
    LET points == parsed[1].points
    IN /\ Len(points.rawPoints) = Cardinality(FittingPrefix)
       /\ header[1].loadedPoints = Cardinality(FittingPrefix)
       /\ Len(points.positions) = Cardinality(FittingPrefix)
       /\ \A k \in DOMAIN points.rawPoints :
            LET pt == points.rawPoints[k]
                minZ == points.bounds[1].z[1]
                maxZ == points.bounds[1].z[2]
                zRange == IF maxZ = minZ THEN 1 ELSE maxZ - minZ
            IN /\ pt.offset = DataStart + (k - 1) * RuleStep * RecLen
               /\ 0 <= pt.offset
               /\ pt.offset + 12 <= buffer.byteLength
               /\ pt.offset + rgbOffset(getUint8(buffer, 104)) + 6
                    > buffer.byteLength =>
                    ColorEq(points.colors[k],
                            elevationColor(<<pt.z - minZ, zRange>>))

\* C13 witness: a file declaring two points is cut inside the coordinates of
\* the second; the parse returned the first point alone.
C13_Witness ==
  /\ parsed # << >>
  /\ parsed[1].threw = ""
  /\ CountIsN
  /\ TotalN = 2
  /\ DataStart + RecLen < buffer.byteLength
  /\ DataStart + RecLen + 12 > buffer.byteLength
  /\ header[1].loadedPoints = 1

\* The buffer with every byte from the offset to the point data on zeroed.
WithoutPoints(buf) ==
  [buf EXCEPT !.bytes = [o \in {p \in DOMAIN buf.bytes : p < DataStart} |->
                           buf.bytes[o]]]

\* The count of the resolution rule as the JavaScript number validate()
\* returns: the extended field enters it as the double nearest to it.
ResolvedNumber(buf) ==
  IF /\ getUint8(buf, 24) >= 1
     /\ getUint8(buf, 25) >= 4
     /\ getUint16(buf, 94) >= 375
     /\ Field64(buf) # <<0, 0, 0, 0, 0>>
    THEN Count64(getUint32(buf, 247), getUint32(buf, 251))
    ELSE FromUint32(getUint32(buf, 107))

\* The count n is at most the integer m, for m below 2^30.
NumAtMost(n, m) ==
  /\ n[3] = 0 /\ n[4] = 0 /\ n[5] = 0 /\ n[2] < 16384
  /\ n[1] + 65536 * n[2] <= m

\* C14: validate() returns a verdict for every buffer: valid with the
\* resolved count and the estimate min(pointCount, maxPoints) * 24, or
\* invalid with an error text that names the cause; a signature other than
\* LASF and a buffer cut before the header fields are invalid; and the
\* verdict does not depend on any byte of the point records.
C14_ValidateVerdict ==
  validated # << >> =>
    LET v == validated[1]
    IN /\ \/ /\ v.valid
             /\ DOMAIN v = {"valid", "pointCount", "estimatedMemory"}
             /\ v.pointCount = ResolvedNumber(buffer)
             /\ v.estimatedMemory =
                  IF NumAtMost(v.pointCount, maxPoints)
                    THEN (v.pointCount[1] + 65536 * v.pointCount[2]) * 24
                    ELSE maxPoints * 24
          \/ /\ ~v.valid
             /\ DOMAIN v = {"valid", "error"}
             /\ v.error \in {"Invalid LAS file signature",
                             "Failed to read LAS header"}
       /\ (buffer.byteLength >= 4 /\ signatureOf(buffer) # LASF) =>
            (~v.valid /\ v.error = "Invalid LAS file signature")
       /\ buffer.byteLength < 111 => ~v.valid
       /\ (buffer.byteLength < 4
             \/ (signatureOf(buffer) = LASF /\ buffer.byteLength < 111)) =>
            (~v.valid /\ v.error = "Failed to read LAS header")
       /\ v = validate(WithoutPoints(buffer))

\* C14 witness: validate() has answered for a buffer cut before the legacy
\* count whose signature is right, and the answer is the truncation error.
C14_Witness ==
  /\ validated # << >>
  /\ buffer.byteLength = 100
  /\ signatureOf(buffer) = LASF
  /\ ~validated[1].valid
  /\ validated[1].error = "Failed to read LAS header"

\* C15: when a call of decompressLaz has ended, by return or by exception,
\* no LASZip handle it created and no heap block it allocated is left
\* alive.
C15_AllReleased ==
  laz.last # << >> =>
    /\ laz.last[1].handles = {}
    /\ laz.last[1].heap = {}

\* C16: the buffer a successful call returns has offsetToPointData +
\* pointCount * pointLength bytes; below offsetToPointData it equals the
\* input, except that byte 104 keeps its low six bits and has the top two
\* cleared; record i of the engine is at offsetToPointData + i *
\* pointLength.
C16_OutputLayout ==
  (laz.last # << >> /\ laz.last[1].threw = "") =>
    LET out == laz.last[1].output[1]
        eng == laz.engine[1]
        otp == getUint16(buffer, 96)
    IN /\ out.byteLength = otp + eng.count * eng.length
       /\ DOMAIN out.bytes = 0 .. (out.byteLength - 1)
       /\ \A o \in 0 .. (otp - 1) :
            IF o = 104
              THEN /\ out.bytes[o] < 64
                   /\ out.bytes[o] % 64 = getUint8(buffer, o) % 64
              ELSE out.bytes[o] = getUint8(buffer, o)
       /\ \A i \in 0 .. (eng.count - 1) : \A k \in 0 .. (eng.length - 1) :
            out.bytes[otp + i * eng.length + k] = EngineByte(i, k)

\* C16 witness: a file whose format byte is 195 has been decompressed to
\* two records of 20 bytes after a header of 227, and byte 104 is 3.
C16_Witness ==
  /\ laz.last # << >>
  /\ laz.last[1].threw = ""
  /\ getUint8(buffer, 104) = 195
  /\ getUint16(buffer, 96) = 227
  /\ laz.engine[1].count = 2
  /\ laz.engine[1].length = 20
  /\ laz.last[1].output[1].bytes[104] = 3
  /\ laz.last[1].output[1].bytes[247] = EngineByte(1, 0)

\* C17: a call on an input whose first four bytes are not LASF ends with
\* the invalid-signature error, having made no engine call, created no
\* handle, allocated nothing on the heap and produced no output.
C17_BadSignatureBeforeEngine ==
  (/\ laz.last # << >>
   /\ buffer.byteLength >= 4
   /\ signatureOf(buffer) # LASF) =>
    /\ laz.last[1].threw = "Invalid LAZ file signature"
    /\ laz.last[1].engineCalls = << >>
    /\ laz.last[1].handles = {}
    /\ laz.last[1].heap = {}
    /\ laz.last[1].output = << >>

\* C17 witness: a call on a whole file with a wrong signature has ended
\* with the invalid-signature error.
C17_Witness ==
  /\ laz.last # << >>
  /\ buffer.byteLength = 240
  /\ signatureOf(buffer) # LASF
  /\ laz.last[1].threw = "Invalid LAZ file signature"

\* loadFile took the main thread path: there was no worker to use, or the
\* worker-based parse failed.
FellBack ==
  \/ ~(fileLoader.supportsWorkers /\ fileLoader.useWorker)
  \/ fileLoader.workerFailed # ""

\* C18: when loadFile has ended after finding no worker or after a failure
\* of the worker-based parse, and the synchronous path returns data for the
\* input, loadFile has returned that same header, positions and colours.
C18_FallbackSameResult ==
  (/\ fileLoader.pc = "done"
   /\ FellBack
   /\ parseBuffer(buffer).threw = "") =>
    fileLoader.result[1] = parseBuffer(buffer)

\* C19: when the worker has answered with an error, loadFile has failed
\* with the message the synchronous path produces for the same input.
C19_WorkerErrorSameMessage ==
  (/\ fileLoader.pc = "done"
   /\ fileLoader.message # << >>
   /\ fileLoader.message[1].type = "error") =>
    /\ fileLoader.result[1].threw # ""
    /\ fileLoader.result[1].threw = parseBuffer(buffer).threw
    /\ fileLoader.error = parseBuffer(buffer).threw

\* The slice bounds the slicer holds are those of the points ps: the ones
\* loadFile computes, or the ones the rotation effect recomputes from them.
BoundsAreOf(ps) ==
  \/ /\ state.boundsX = dataBounds(ps).x
     /\ state.boundsY = dataBounds(ps).y
     /\ state.boundsZ = dataBounds(ps).z
  \/ /\ state.boundsX = RotatedExtremes(ps, rotationZ).x
     /\ state.boundsY = RotatedExtremes(ps, rotationZ).y
     /\ state.boundsZ = RotatedExtremes(ps, rotationZ).z

\* C20: once no load is in flight and what the loads set has been
\* rendered, the displayed points, the original buffers, the slice bounds
\* and the file info are those of the load started last.
C20_LatestLoadWins ==
  (loads = << >> /\ lastStarted # 0 /\ NoLoadAwaitsRender /\ timers = {}) =>
    /\ stored = lastStarted
    /\ threeRef.position = Files[lastStarted].positions
    /\ threeRef.originalPositions = Files[lastStarted].positions
    /\ threeRef.originalColors = Files[lastStarted].colors
    /\ BoundsAreOf(Files[lastStarted].positions)
    /\ fileInfo = lastStarted

\* C28: when validate() has accepted the buffer, parseHeader() on the same
\* buffer does not throw.
C28_ValidatedHeaderParses ==
  (validated # << >> /\ validated[1].valid) => parseHeader(buffer).threw = ""

\* The sum of coordinate k of the positions from place i on.
RECURSIVE SumFrom(_, _, _)
SumFrom(positions, k, i) ==
  IF i > Len(positions) THEN 0
  ELSE positions[i][k] + SumFrom(positions, k, i + 1)

\* C22: the positions parse() returns sum to zero on every axis, which is
\* to say that their centroid is the origin.
C22_CentroidAtOrigin ==
  (parsed # << >> /\ parsed[1].threw = "") =>
    \A k \in 1 .. 3 : SumFrom(parsed[1].points.positions, k, 1) = 0

\* The format code and the declared record length say that a record holds a
\* colour block: the format has one, and its six bytes end inside the
\* record.
RecordHoldsColour ==
  LET format == getUint8(buffer, 104)
  IN \/ format = 2 /\ 20 + 6 <= RecLen
     \/ format \in {3, 5} /\ 28 + 6 <= RecLen
     \/ format \in {7, 8, 10} /\ 30 + 6 <= RecLen

\* C23: when the format code and the record length do not give the record
\* a colour block, no channel is read and every point has the gradient
\* colour of its elevation.
C23_ColourBlockByFormatAndLength ==
  (parsed # << >> /\ parsed[1].threw = "" /\ ~RecordHoldsColour) =>
    LET points == parsed[1].points
    IN \A k \in DOMAIN points.rawPoints :
         LET pt == points.rawPoints[k]
             minZ == points.bounds[1].z[1]
             maxZ == points.bounds[1].z[2]
             zRange == IF maxZ = minZ THEN 1 ELSE maxZ - minZ
         IN ColorEq(points.colors[k], elevationColor(<<pt.z - minZ, zRange>>))

\* The fraction a is at most the fraction b; both have positive
\* denominators.
FracLeq(a, b) ==
  IF a[1] = 0 THEN b[1] >= 0 ELSE a[1] * b[2] <= b[1] * a[2]

\* C24: the values a parse() passes to onProgress never decrease; those of
\* the read phase lie in [0,50], those of the colourize phase in [50,100],
\* no read-phase value comes after a colourize-phase value, and the last
\* value is 100.
C24_ProgressMonotone ==
  (parsed # << >> /\ parsed[1].threw = "") =>
    LET p == parsed[1].points.progress
    IN /\ \A j, k \in DOMAIN p : j < k => FracLeq(p[j].value, p[k].value)
       /\ \A k \in DOMAIN p :
            /\ p[k].phase = "read" =>
                 FracLeq(<<0, 1>>, p[k].value) /\ FracLeq(p[k].value, <<50, 1>>)
            /\ p[k].phase = "colourize" =>
                 FracLeq(<<50, 1>>, p[k].value) /\ FracLeq(p[k].value, <<100, 1>>)
       /\ \A j, k \in DOMAIN p :
            (p[j].phase = "colourize" /\ p[k].phase = "read") => j > k
       /\ Len(p) > 0
       /\ FracLeq(p[Len(p)].value, <<100, 1>>)
       /\ FracLeq(<<100, 1>>, p[Len(p)].value)

\* C24 witness: a parse of five records has reported 40 in the read phase,
\* 90 in the colourize phase, and 100 at the end.
C24_Witness ==
  /\ parsed # << >>
  /\ parsed[1].threw = ""
  /\ Len(parsed[1].points.progress) = 11
  /\ parsed[1].points.progress[5] = [phase |-> "read", value |-> <<200, 5>>]
  /\ parsed[1].points.progress[10] =
       [phase |-> "colourize", value |-> <<450, 5>>]
  /\ parsed[1].points.progress[11].phase = "done"

\* C21: a load that fails surfaces the error text and clears the loading
\* flag, and leaves the displayed points, the original buffers, the slicer
\* state, the updates awaiting a render and the file info as they were; the
\* parser's header is empty.
C21_FailedLoadChangesNothing ==
  [][(\E i \in 1 .. MaxEvents : FailLoad(i)) =>
       /\ error' # ""
       /\ error' = parsed'[1].threw
       /\ ~loading'
       /\ threeRef' = threeRef
       /\ stored' = stored
       /\ state' = state
       /\ lastAppliedRef' = lastAppliedRef
       /\ updates' = updates
       /\ fileInfo' = fileInfo
       /\ pointColor' = pointColor
       /\ rotationZ' = rotationZ
       /\ header' = << >>]_vars

\* C21 witness: file 1 is shown, and a later load has failed with the
\* signature error of the decompressor.
C21_Witness ==
  /\ stored = 1
  /\ fileInfo = 1
  /\ threeRef.points
  /\ loads = << >>
  /\ ~loading
  /\ error = "Invalid LAZ file signature"
  /\ header = << >>

\* C27: once a file is loaded and the user has made the last change, the
\* viewer comes to rest: a state is reached in which no update awaits a
\* render.
C27_LoadQuiesces ==
  (userDone /\ threeRef.hasOriginal) ~> (updates = << >>)

\* The payload of the last INITIALIZE among the updates q.
LastInitialize(q) ==
  q[CHOOSE i \in DOMAIN q :
      /\ q[i].type = "INITIALIZE"
      /\ \A j \in DOMAIN q : q[j].type = "INITIALIZE" => j <= i].payload

\* The bounds the slicer can hold for the points ps: the extrema loadFile
\* passes to initialize, or those of ps turned by one of the angles.
BoundsOfFile(ps) ==
  {dataBounds(ps)} \cup {RotatedExtremes(ps, deg) : deg \in RotationValues}

\* The end of a load clears the last-applied memo and queues the
\* initialization with the extrema of the new positions, and the render of
\* that initialization leaves the slicer disabled with all ranges {0, 100}
\* and those extrema as bounds.
LoadInitializesSlicer ==
  [][/\ (\E f \in FileIds : LoadFile(f)) =>
          /\ lastAppliedRef' = << >>
          /\ LastInitialize(updates') =
               dataBounds(threeRef'.originalPositions)
     /\ (Render /\ \E i \in DOMAIN updates : updates[i].type = "INITIALIZE") =>
          /\ ~state'.enabled
          /\ state'.x = [min |-> 0, max |-> 100]
          /\ state'.y = [min |-> 0, max |-> 100]
          /\ state'.z = [min |-> 0, max |-> 100]
          /\ state'.boundsX = dataBounds(threeRef.originalPositions).x
          /\ state'.boundsY = dataBounds(threeRef.originalPositions).y
          /\ state'.boundsZ = dataBounds(threeRef.originalPositions).z]_vars

\* A filter pass that has just run on the points of the stored file with
\* slicing on used bounds computed from that file.
PassUsesBoundsOfStoredFile ==
  (Len(fired) = 1 /\ fired[1].state.enabled /\ threeRef.hasOriginal) =>
    [x |-> fired[1].state.boundsX, y |-> fired[1].state.boundsY,
     z |-> fired[1].state.boundsZ] \in BoundsOfFile(threeRef.originalPositions)

\* C26: every load re-initializes the slicer (disabled, ranges {0, 100},
\* bounds the extrema of the new positions, memo cleared), and no filter
\* pass on the new file uses what the slicer held for the previous one.
C26_LoadResetsSlicer ==
  LoadInitializesSlicer /\ []PassUsesBoundsOfStoredFile

\* C25: when cancel() has been called while a worker-based decode was in
\* flight, the worker is terminated and no result reaches the caller.
C25_CancelStopsWorker ==
  fileLoader.cancelled =>
    /\ fileLoader.terminated
    /\ fileLoader.result = << >>

\* C29: createLazPerf() is called once, by the first call of decompressLaz,
\* and every call awaits and receives that one module.
C29_ModuleCreatedOnce ==
  /\ laz.created <= 1
  /\ laz.started > 0 => laz.created = 1
  /\ \A i \in DOMAIN laz.waiting : laz.waiting[i] = 1
  /\ laz.modules \subseteq {1}
  /\ laz.LazPerf \in {0, 1}

\* C29 witness: a second call has started while the initialization begun by
\* the first is still pending, and createLazPerf() has been called once.
C29_Witness ==
  /\ laz.started = 2
  /\ laz.LazPerf = 0
  /\ laz.waiting = <<1, 1>>
  /\ laz.created = 1

\* C30: the elevation of the camera is within [minElevation, maxElevation]
\* after every operation of the orbit controls.
C30_ElevationWithinLimits ==
  /\ controls.elevation >= minElevation
  /\ controls.elevation <= maxElevation

====
